---- MODULE Spec2Model ----
(***************************************************************************)
(* Entity pool, spatial grid and three-gate collision filter of the EPOCH  *)
(* project (src/projects/epoch), modelled from the C sources.              *)
(***************************************************************************)
EXTENDS Integers, Sequences, FiniteSets, TLC

VARIABLES
    entities,     \* Entity entities[MAX_ENTITIES]            (engine/entity.c:8)
    entityCount,  \* u8 entityCount                           (engine/entity.c:9)
    ret,          \* value returned by entity_alloc when the latest call was
                  \* entity_alloc, -2 after any other call (history)
    log,          \* returns of the entity_alloc calls since entity_initPool,
                  \* kept while no entity_free has intervened (history)
    freed,        \* TRUE once an entity_free ran since entity_initPool (history)
    lastFreed,    \* slot deactivated by the most recent entity_free, -1 once
                  \* it has been handed out again (history)
    firstInCell,  \* u8 spatialGrid.firstInCell[SPATIAL_GRID_CELLS] (engine/spatial.h:28)
    nextEntity,   \* u8 spatialGrid.nextEntity[MAX_ENTITIES]        (engine/spatial.h:29)
    frameCount,   \* u32 game.frameCount                            (inc/game.h)
    gridLog,      \* the spatial_clear and spatial_insert calls since, and
                  \* with, the latest spatial_clear; empty before it (history)
    query,        \* the latest spatial_checkCollisionThreeGate call with the
                  \* value it returned, <<>> after any other call (history)
    game,         \* the statics of the game modules: Game game, InputState
                  \* input, PlayerData playerData, FenrirData fenrirData,
                  \* DirectorState director, the camera, the upgrade menu and
                  \* the two sprite-slot pools
    events,       \* the pool and grid calls of the latest game_update, in
                  \* the order they were made (history)
    em,           \* entity_manager_t of the deprecated entity manager
                  \* (_deprecated/src/engines/common/common.h:85-90)
    split         \* the statics of the deprecated split pool: entity_pool,
                  \* free_list_head, active_count and the category counts
                  \* (_deprecated/src/entity.c:62-74), with the tier of the build

gridVars == <<firstInCell, nextEntity, frameCount, gridLog, query>>

frameVars == <<game, events>>

legacyVars == <<em, split>>

vars == <<entities, entityCount, ret, log, freed, lastFreed, gridVars, frameVars,
          legacyVars>>

----------------------------------------------------------------------------
(* Program constants                                                       *)

MAX_ENTITIES == 64
SLOT_PLAYER == 0
SLOT_FENRIR == 1
SLOT_ENEMIES_START == 2
SLOT_ENEMIES_END == 25
SLOT_PROJ_START == 26
SLOT_PROJ_END == 57
SLOT_TOWERS_START == 58

MAP_WIDTH == 1280
MAP_HEIGHT == 896
FP_SHIFT == 8

SPATIAL_CELL_SHIFT == 6
SPATIAL_GRID_W_SHIFT == 5
SPATIAL_GRID_W == 32
SPATIAL_GRID_H == 16
SPATIAL_GRID_CELLS == 512
SPATIAL_NULL == 255

ENT_ACTIVE == 1
ENT_VISIBLE == 2
ENT_SOLID == 4
ENT_FRIENDLY == 8
ENT_ENEMY == 16
ENT_PICKUP == 32

COLL_NONE == 0
COLL_PLAYER == 1
COLL_ENEMY == 2
COLL_PROJ_PLR == 4
COLL_PROJ_ENY == 8
COLL_PICKUP == 16
COLL_TOWER == 32
COLL_FENRIR == 64

ENT_TYPE_NONE == 0
ENT_TYPE_PLAYER == 16        \* 0x10
ENT_TYPE_FENRIR == 17        \* 0x11
ENT_TYPE_ENEMY_BASIC == 32   \* 0x20
ENT_TYPE_ENEMY_FAST == 33    \* 0x21
ENT_TYPE_ENEMY_TANK == 34    \* 0x22
ENT_TYPE_PROJ_PLAYER == 48   \* 0x30
ENT_TYPE_PROJ_ENEMY == 49    \* 0x31
ENT_TYPE_TOWER_BASIC == 64   \* 0x40
ENT_TYPE_TOWER_CENTER == 67  \* 0x43
ENT_TYPE_NPC == 80           \* 0x50
ENT_TYPE_PICKUP_XP == 96     \* 0x60
ENT_TYPE_PICKUP_BOMB == 99   \* 0x63

----------------------------------------------------------------------------
SLOT_TOWERS_END == MAX_ENTITIES - 1

SCREEN_WIDTH == 320
SCREEN_HEIGHT == 224
TOWER_X == 640
TOWER_Y == 448
CAMERA_DEADZONE_X == 80
CAMERA_DEADZONE_Y == 60
PLAYER_WIDTH == 32
PLAYER_HEIGHT == 32
SIEGE_DURATION_SEC == 480
SIEGE_DURATION_FRAMES == SIEGE_DURATION_SEC * 60
PLAYER_SPEED == 384          \* 0x0180
FENRIR_SPEED == 320          \* 0x0140
DASH_DURATION == 12
INVULN_FRAMES == 60
DASH_COOLDOWN == 60
HEAT_MAX == 100
TOWER_INTERACT_RANGE == 48

STATE_TITLE == 0
STATE_SIEGE == 1
STATE_EXPEDITION == 2
STATE_TOWN == 3
STATE_PAUSED == 4
STATE_LEVELUP == 5
STATE_GAMEOVER == 6

DIR_RIGHT == 0
DIR_DOWN_RIGHT == 1
DIR_DOWN == 2
DIR_DOWN_LEFT == 3
DIR_LEFT == 4
DIR_UP_LEFT == 5
DIR_UP == 6
DIR_UP_RIGHT == 7

ENEMY_ID_GRUNT == 0
ENEMY_ID_RUSHER == 1
ENEMY_ID_TANK == 2
ENEMY_COUNT == 3

MAX_VISIBLE_ENEMIES == 12
MAX_VISIBLE_PROJECTILES == 10

BASE_SPAWN_INTERVAL == 90
MIN_SPAWN_INTERVAL == 30
BASE_ENEMIES_PER_SPAWN == 3
MAX_ENEMIES_PER_SPAWN == 6
MAX_ACTIVE_ENEMIES == 15
WAVE_ENEMY_COUNT_BASE == 10
BOSS_WAVE_INTERVAL == 5

PICKUP_XP_SMALL == 0
PICKUP_XP_BIG == 1
PICKUP_HEALTH == 2
ENT_TYPE_PICKUP_HEALTH == 97 \* 0x61

FENRIR_MODE_FOLLOW == 0
FENRIR_MODE_GUARD == 1
FENRIR_MODE_ATTACK == 2
FENRIR_MODE_FETCH == 3
FENRIR_SEARCH_INTERVAL == 15

UPGRADE_FIRE_RATE == 0
UPGRADE_DAMAGE == 1
UPGRADE_SPREAD == 2
UPGRADE_FENRIR == 3
UPGRADE_MAGNET == 4
UPGRADE_COUNT == 5

(* Machine arithmetic                                                      *)

\* value & bit != 0 for a single-bit mask
HasFlag(value, bit) == (value \div bit) % 2 = 1

\* a & b on non-negative integers
RECURSIVE BitAnd(_, _)
BitAnd(a, b) ==
    IF a = 0 \/ b = 0 THEN 0
    ELSE (a % 2) * (b % 2) + 2 * BitAnd(a \div 2, b \div 2)

\* type & 0xF0
HighNibble(type) == (type \div 16) * 16

\* conversion to u8 (wraps modulo 256)
ToU8(v) == v % 256

----------------------------------------------------------------------------
(* Entity pool (engine/entity.c)                                           *)

Slots == 0 .. (MAX_ENTITIES - 1)

\* one zeroed Entity record (memset 0)
ZeroEntity ==
    [flags |-> 0, type |-> 0, timer |-> 0, frame |-> 0, x |-> 0, y |-> 0,
     vx |-> 0, vy |-> 0, hp |-> 0, data |-> 0, width |-> 0, height |-> 0,
     spriteId |-> 0, collMask |-> 0]

IsActive(e) == HasFlag(e.flags, ENT_ACTIVE)

\* variant: every scan starts at slot 0
AllocStartZero(type) == SLOT_PLAYER

\* first slot of the range entity_alloc scans for a type
AllocStart(type) ==
    CASE HighNibble(type) = 16 -> SLOT_PLAYER
      [] HighNibble(type) = 32 -> SLOT_ENEMIES_START
      [] HighNibble(type) = 48 -> SLOT_PROJ_START
      [] OTHER -> SLOT_TOWERS_START

\* variant: every range runs on to the end of the pool
AllocEndSpill(type) == MAX_ENTITIES

\* one past the last slot of that range
AllocEnd(type) ==
    CASE HighNibble(type) = 16 -> SLOT_FENRIR + 1
      [] HighNibble(type) = 32 -> SLOT_ENEMIES_END + 1
      [] HighNibble(type) = 48 -> SLOT_PROJ_END + 1
      [] OTHER -> MAX_ENTITIES

\* variant: the scan takes the first slot of the range without testing ENT_ACTIVE
AllocScanNoTest(ents, i, end) == IF i >= end THEN -1 ELSE i

\* variant: the scan runs downward and takes the highest inactive slot
AllocScanDown(ents, i, end) ==
    LET free == {s \in i .. (end - 1) : ~IsActive(ents[s])}
    IN IF free = {} THEN -1 ELSE CHOOSE s \in free : \A t \in free : t <= s

\* for (i = start; i < end; i++) if (!(entities[i].flags & ENT_ACTIVE)) return i;
\* return -1
RECURSIVE AllocScan(_, _, _)
AllocScan(ents, i, end) ==
    IF i >= end THEN -1
    ELSE IF ~IsActive(ents[i]) THEN i
    ELSE AllocScan(ents, i + 1, end)

\* default hitbox width (= height) per category
DefaultSize(type) ==
    CASE HighNibble(type) = ENT_TYPE_PLAYER -> 16
      [] HighNibble(type) = ENT_TYPE_ENEMY_BASIC -> 24
      [] HighNibble(type) = ENT_TYPE_PROJ_PLAYER -> 12
      [] HighNibble(type) = ENT_TYPE_TOWER_BASIC -> 64
      [] HighNibble(type) = 96 -> 16
      [] OTHER -> 16

\* default collision mask per category / variant
DefaultMask(type) ==
    CASE HighNibble(type) = ENT_TYPE_PLAYER ->
            (IF type = ENT_TYPE_PLAYER THEN COLL_PLAYER ELSE COLL_FENRIR)
      [] HighNibble(type) = ENT_TYPE_ENEMY_BASIC -> COLL_ENEMY
      [] HighNibble(type) = ENT_TYPE_PROJ_PLAYER ->
            (IF type = ENT_TYPE_PROJ_PLAYER THEN COLL_PROJ_PLR ELSE COLL_PROJ_ENY)
      [] HighNibble(type) = ENT_TYPE_TOWER_BASIC -> COLL_TOWER
      [] HighNibble(type) = 96 -> COLL_PICKUP
      [] OTHER -> COLL_NONE

\* the fields entity_alloc writes into the slot it found; vx, vy, x, y, hp,
\* frame and spriteId are not written
AllocFill(e, type) ==
    [e EXCEPT !.flags = ENT_ACTIVE + ENT_VISIBLE,
              !.type = type,
              !.timer = 0,
              !.data = 0,
              !.width = DefaultSize(type),
              !.height = DefaultSize(type),
              !.collMask = DefaultMask(type)]

\* variant: the slot is handed out and entityCount is left alone
entity_allocNoCount(ents, cnt, type) ==
    LET i == AllocScan(ents, AllocStart(type), AllocEnd(type))
    IN IF i = -1
       THEN [entities |-> ents, entityCount |-> cnt, ret |-> -1]
       ELSE [entities |-> [ents EXCEPT ![i] = AllocFill(ents[i], type)],
             entityCount |-> cnt,
             ret |-> i]

\* s8 entity_alloc(u8 type): the pool after the call and the value returned
entity_alloc(ents, cnt, type) ==
    LET i == AllocScan(ents, AllocStart(type), AllocEnd(type))
    IN IF i = -1
       THEN [entities |-> ents, entityCount |-> cnt, ret |-> -1]
       ELSE [entities |-> [ents EXCEPT ![i] = AllocFill(ents[i], type)],
             entityCount |-> ToU8(cnt + 1),
             ret |-> i]

\* variant: the slot loses its type tag but keeps its flags
entity_freeTypeOnly(ents, cnt, slot) ==
    IF slot < MAX_ENTITIES /\ IsActive(ents[slot])
    THEN [entities |-> [ents EXCEPT ![slot].type = ENT_TYPE_NONE],
          entityCount |-> IF cnt > 0 THEN cnt - 1 ELSE cnt]
    ELSE [entities |-> ents, entityCount |-> cnt]

\* variant: the slot is released without the ENT_ACTIVE test
entity_freeUnchecked(ents, cnt, slot) ==
    IF slot < MAX_ENTITIES
    THEN [entities |-> [ents EXCEPT ![slot].flags = 0,
                                    ![slot].type = ENT_TYPE_NONE],
          entityCount |-> IF cnt > 0 THEN cnt - 1 ELSE cnt]
    ELSE [entities |-> ents, entityCount |-> cnt]

\* variant: the slot is released and entityCount is left alone
entity_freeNoCount(ents, cnt, slot) ==
    IF slot < MAX_ENTITIES /\ IsActive(ents[slot])
    THEN [entities |-> [ents EXCEPT ![slot].flags = 0,
                                    ![slot].type = ENT_TYPE_NONE],
          entityCount |-> cnt]
    ELSE [entities |-> ents, entityCount |-> cnt]

\* void entity_free(u8 slot)
entity_free(ents, cnt, slot) ==
    IF slot < MAX_ENTITIES /\ IsActive(ents[slot])
    THEN [entities |-> [ents EXCEPT ![slot].flags = 0,
                                    ![slot].type = ENT_TYPE_NONE],
          entityCount |-> IF cnt > 0 THEN cnt - 1 ELSE cnt]
    ELSE [entities |-> ents, entityCount |-> cnt]

\* void entity_initPool(void): memset(entities, 0), entityCount = 0
entity_initPool == [entities |-> [s \in Slots |-> ZeroEntity], entityCount |-> 0]

\* void entity_freeAll(void) { entity_initPool(); }
entity_freeAll == entity_initPool

----------------------------------------------------------------------------
(* Spatial grid and three-gate collision (engine/spatial.h, spatial.c)     *)

\* conversion to s16 (two's complement, wraps modulo 65536)
ToS16(v) == LET m == v % 65536 IN IF m >= 32768 THEN m - 65536 ELSE m

\* 2^n
RECURSIVE Pow2(_)
Pow2(n) == IF n = 0 THEN 1 ELSE 2 * Pow2(n - 1)

\* FP(x): pixels to 24.8 fixed point
FP(px) == px * Pow2(FP_SHIFT)

\* FP_INT(x): arithmetic shift right by FP_SHIFT
FP_INT(x) == x \div Pow2(FP_SHIFT)

Cells == 0 .. (SPATIAL_GRID_CELLS - 1)

\* px (py) of spatial_getCellIndex after the two clamps against the map
ClampPixel(p, limit) == IF p < 0 THEN 0 ELSE IF p >= limit THEN limit - 1 ELSE p

\* cellX (cellY): u8 of the shifted pixel, clamped against the grid
ClampCell(p, limit) ==
    LET cell == ToU8(p \div Pow2(SPATIAL_CELL_SHIFT))
    IN IF cell >= limit THEN limit - 1 ELSE cell

\* variant: the shifted s16 pixels are used without either clamp
spatial_getCellIndexRaw(x, y) ==
    ToU8(ToS16(FP_INT(x)) \div Pow2(SPATIAL_CELL_SHIFT))
        + ToU8(ToS16(FP_INT(y)) \div Pow2(SPATIAL_CELL_SHIFT)) * Pow2(SPATIAL_GRID_W_SHIFT)

\* static inline u16 spatial_getCellIndex(s32 x, s32 y)
spatial_getCellIndex(x, y) ==
    LET px == ClampPixel(ToS16(FP_INT(x)), MAP_WIDTH)
        py == ClampPixel(ToS16(FP_INT(y)), MAP_HEIGHT)
        cellX == ClampCell(px, SPATIAL_GRID_W)
        cellY == ClampCell(py, SPATIAL_GRID_H)
    IN cellX + cellY * Pow2(SPATIAL_GRID_W_SHIFT)

\* void spatial_clear(void): both arrays memset to SPATIAL_NULL
spatial_clear ==
    [firstInCell |-> [c \in Cells |-> SPATIAL_NULL],
     nextEntity |-> [s \in Slots |-> SPATIAL_NULL]]

\* variant: the new head is not linked to the old head of the cell
spatial_insertNoLink(first, next, slot, x, y) ==
    LET cellIndex == spatial_getCellIndex(x, y)
    IN [firstInCell |-> [first EXCEPT ![cellIndex] = slot],
        nextEntity |-> next]

\* variant: the two stores are swapped, the head is written before it is read
spatial_insertHeadFirst(first, next, slot, x, y) ==
    LET cellIndex == spatial_getCellIndex(x, y)
    IN [firstInCell |-> [first EXCEPT ![cellIndex] = slot],
        nextEntity |-> [next EXCEPT ![slot] = slot]]

\* void spatial_insert(u8 slot, s32 x, s32 y), for slot < MAX_ENTITIES
spatial_insert(first, next, slot, x, y) ==
    LET cellIndex == spatial_getCellIndex(x, y)
    IN [firstInCell |-> [first EXCEPT ![cellIndex] = slot],
        nextEntity |-> [next EXCEPT ![slot] = first[cellIndex]]]

\* |srcX - tgtX| as the s16 dx of the query
AbsDx(source, target) ==
    LET dx == ToS16(ToS16(FP_INT(source.x)) - ToS16(FP_INT(target.x)))
    IN IF dx < 0 THEN ToS16(-dx) ELSE dx

\* |srcY - tgtY| as the s16 dy of the query
AbsDy(source, target) ==
    LET dy == ToS16(ToS16(FP_INT(source.y)) - ToS16(FP_INT(target.y)))
    IN IF dy < 0 THEN ToS16(-dy) ELSE dy

\* Gate 1: target->collMask & targetMask
Gate1(target, targetMask) == BitAnd(target.collMask, targetMask) # 0

\* s16 manhattanMax = srcHalfW + srcHalfH + 32
ManhattanMax(source) == ToS16(source.width \div 2 + source.height \div 2 + 32)

\* Gate 2: dx + dy < manhattanMax
Gate2(source, target) == AbsDx(source, target) + AbsDy(source, target) < ManhattanMax(source)

\* Gate 3: dx < combinedW && dy < combinedH
Gate3(source, target) ==
    /\ AbsDx(source, target) < ToS16(source.width \div 2 + target.width \div 2)
    /\ AbsDy(source, target) < ToS16(source.height \div 2 + target.height \div 2)

\* variant: a candidate that passed Gate 2 is returned without the box test
ThreeGateHitNoBox(ents, slot, sourceSlot, targetMask, frame) ==
    /\ slot % 2 = frame % 2
    /\ slot # sourceSlot
    /\ IsActive(ents[slot])
    /\ Gate1(ents[slot], targetMask)
    /\ Gate2(ents[sourceSlot], ents[slot])

\* the body of the while loop for one slot: TRUE when the loop returns slot
ThreeGateHit(ents, slot, sourceSlot, targetMask, frame) ==
    /\ slot % 2 = frame % 2
    /\ slot # sourceSlot
    /\ IsActive(ents[slot])
    /\ Gate1(ents[slot], targetMask)
    /\ Gate2(ents[sourceSlot], ents[slot])
    /\ Gate3(ents[sourceSlot], ents[slot])

\* a hit further down the list is preferred to the slot at hand
PreferLater(later, slot) == IF later # 255 THEN later ELSE slot

\* variant: the walk goes on to the end of the list and returns the last hit
RECURSIVE ThreeGateWalkLast(_, _, _, _, _, _, _)
ThreeGateWalkLast(ents, next, slot, sourceSlot, targetMask, frame, left) ==
    IF slot = SPATIAL_NULL \/ left = 0 \/ slot >= MAX_ENTITIES THEN 255
    ELSE PreferLater(ThreeGateWalkLast(ents, next, next[slot], sourceSlot, targetMask,
                                       frame, left - 1),
                     IF ThreeGateHit(ents, slot, sourceSlot, targetMask, frame)
                     THEN slot ELSE 255)

\* while (slot != SPATIAL_NULL) { ... slot = nextEntity[slot]; } return 0xFF;
\* left counts the iterations still allowed: a list of MAX_ENTITIES slots that
\* has not ended is cyclic and the loop does not return (-1)
RECURSIVE ThreeGateWalk(_, _, _, _, _, _, _)
ThreeGateWalk(ents, next, slot, sourceSlot, targetMask, frame, left) ==
    IF slot = SPATIAL_NULL THEN 255
    ELSE IF left = 0 \/ slot >= MAX_ENTITIES THEN -1
    ELSE IF ThreeGateHit(ents, slot, sourceSlot, targetMask, frame) THEN slot
    ELSE ThreeGateWalk(ents, next, next[slot], sourceSlot, targetMask, frame, left - 1)

\* lowest slot of a set, 255 for the empty set
LowestOf(set) == IF set = {} THEN 255 ELSE CHOOSE s \in set : \A t \in set : s <= t

\* variant: every slot of the pool is a candidate, whatever cell it is in
spatial_checkCollisionAllCells(ents, first, next, sourceSlot, targetMask, frame) ==
    LowestOf({s \in 0 .. (MAX_ENTITIES - 1) :
                 ThreeGateHit(ents, s, sourceSlot, targetMask, frame % 65536)})

\* u8 spatial_checkCollisionThreeGate(u8 sourceSlot, u8 targetMask, u16 frameCount)
spatial_checkCollisionThreeGate(ents, first, next, sourceSlot, targetMask, frame) ==
    LET srcCell == spatial_getCellIndex(ents[sourceSlot].x, ents[sourceSlot].y)
    IN ThreeGateWalk(ents, next, first[srcCell], sourceSlot, targetMask,
                     frame % 65536, MAX_ENTITIES)

\* the slots met walking the list of a cell from its head
RECURSIVE ListFrom(_, _, _)
ListFrom(next, slot, left) ==
    IF slot = SPATIAL_NULL \/ slot >= MAX_ENTITIES \/ left = 0 THEN <<>>
    ELSE <<slot>> \o ListFrom(next, next[slot], left - 1)

CellList(first, next, cell) == ListFrom(next, first[cell], MAX_ENTITIES)

\* spatialGrid and game are zero-initialised statics
GridBoot ==
    /\ firstInCell = [c \in Cells |-> 0]
    /\ nextEntity = [s \in Slots |-> 0]
    /\ frameCount = 0
    /\ gridLog = <<>>
    /\ query = <<>>

----------------------------------------------------------------------------
(* The game modules (src/main.c, src/game, src/ui).  Each function of the  *)
(* program is an operator from the world before the call to the world     *)
(* after it.  A world w holds the entity pool (ents, cnt), the spatial     *)
(* grid (first, next), game.frameCount (frame), the other statics (g), the *)
(* pool and grid calls made so far in the frame (ev) and the values the    *)
(* coming random() calls return (rnd).  Sprites, VDP, audio and the HUD    *)
(* text are output only and are left out; the sprite-slot bookkeeping that *)
(* feeds Entity.data is kept.  collisionMap stays zero (game_init clears   *)
(* it and no wall is placed), so entity_checkTileCollision returns FALSE.  *)

Min(a, b) == IF a < b THEN a ELSE b
Max(a, b) == IF a > b THEN a ELSE b
Abs(a) == IF a < 0 THEN -a ELSE a

ToU16(v) == v % 65536
ToS8(v) == LET m == v % 256 IN IF m >= 128 THEN m - 256 ELSE m
\* s32 and u32 results: every 32-bit quantity of the model (coordinates up
\* to FP(MAP_WIDTH), score, XP, frame count) stays far inside the range, and
\* TLC stops with an error on a value outside it
ToS32(v) == v
ToU32(v) == v

\* value | bit for a single-bit mask
SetFlag(value, bit) == IF HasFlag(value, bit) THEN value ELSE value + bit

\* value & ~bit for a single-bit mask
ClearFlag(value, bit) == IF HasFlag(value, bit) THEN value - bit ELSE value

EnemySprites == 0 .. (MAX_VISIBLE_ENEMIES - 1)
ProjSprites == 0 .. (MAX_VISIBLE_PROJECTILES - 1)

\* every static of the game modules as the loader leaves it (zero, but for
\* the initialiser of cachedTargetSlot)
ZeroGame ==
    [state |-> 0, prevState |-> 0, siegeTimer |-> 0, heat |-> 0, gateOpen |-> 0,
     score |-> 0, playerXP |-> 0,
     current |-> {}, pressed |-> {},
     maxHP |-> 0, currentHP |-> 0, facing |-> 0, invulnTimer |-> 0,
     dashTimer |-> 0, strafeLocked |-> 0, dashCooldown |-> 0,
     fireCooldown |-> 0, cameraX |-> 0, cameraY |-> 0,
     waveNumber |-> 0, waveTimer |-> 0, spawnInterval |-> 0,
     enemiesPerSpawn |-> 0, enemiesRemaining |-> 0, bossActive |-> 0,
     liveEnemyCount |-> 0,
     currentMode |-> FENRIR_MODE_FOLLOW, cachedTargetSlot |-> 255, searchTimer |-> 0,
     menuOpen |-> FALSE, selectedUpgrade |-> 0, upgrades |-> <<0, 0, 0, 0, 0>>,
     spriteSlotFree |-> [s \in EnemySprites |-> FALSE], lastFreeSpriteHint |-> 0,
     projSpriteSlotFree |-> [s \in ProjSprites |-> FALSE], lastFreeProjSlot |-> 0]

\* w once TLC has computed it: the loops below pass each world through Done
\* before the next iteration so that the evaluation does not nest one level
\* per iteration (entityCount is never negative)
Done(w) == w.cnt >= 0

\* one entry of the per-frame call history.  op is "clear" (spatial_clear),
\* "insert" (spatial_insert of slot into cell hit), "query"
\* (spatial_checkCollisionThreeGate for source slot, returning hit), "contact"
\* (the contact check starts its walk), "walk" (the contact check visits slot;
\* hit is 1 when it damages the player), "alloc" (entity_alloc of type hit
\* returning slot) or "free" (entity_free of slot; hit is 1 when it was active)
Event(op, slot, hit) == [op |-> op, slot |-> slot, hit |-> hit]

Emit(w, op, slot, hit) == [w EXCEPT !.ev = Append(@, Event(op, slot, hit))]

\* random(): the next value of the generator (library code, any u16)
RandomValue(w) == Head(w.rnd)

\* the world after one random() call
RandomNext(w) == [w EXCEPT !.rnd = Append(Tail(@), Head(@))]

\* ((u32)random() * limit) >> 16 on the value random() returned
Math_randomRange(value, limit) == (value * limit) \div 65536

\* the slots a hint-based search visits: from the hint up, then from 0 to the hint
FindFree(free, hint, max) ==
    LET up == {s \in hint .. (max - 1) : free[s]}
        down == {s \in 0 .. (Min(hint, max) - 1) : free[s]}
    IN IF up # {} THEN CHOOSE s \in up : \A t \in up : s <= t
       ELSE IF down # {} THEN CHOOSE s \in down : \A t \in down : s <= t
       ELSE 255

\* static u8 findFreeSpriteSlot(void) of enemies.c
findFreeSpriteSlot(g) == FindFree(g.spriteSlotFree, g.lastFreeSpriteHint, MAX_VISIBLE_ENEMIES)

\* static u8 findFreeProjSpriteSlot(void) of projectiles.c
findFreeProjSpriteSlot(g) ==
    FindFree(g.projSpriteSlotFree, g.lastFreeProjSlot, MAX_VISIBLE_PROJECTILES)

\* entity_alloc on a world: the world after the call and the value returned
WorldAlloc(w, type) ==
    LET a == entity_alloc(w.ents, w.cnt, type)
    IN [w |-> Emit([w EXCEPT !.ents = a.entities, !.cnt = a.entityCount],
                   "alloc", a.ret, type),
        ret |-> a.ret]

\* entity_free on a world
WorldFree(w, slot) ==
    LET f == entity_free(w.ents, w.cnt, slot)
    IN Emit([w EXCEPT !.ents = f.entities, !.cnt = f.entityCount], "free", slot,
            IF slot < MAX_ENTITIES /\ IsActive(w.ents[slot]) THEN 1 ELSE 0)

\* the part of projectile_spawn and projectile_spawn_visual after entity_alloc
ProjectileFill(w, a, flags, x, y, vx, vy, timer) ==
    LET spriteSlot == findFreeProjSpriteSlot(a.w.g)
        proj == [a.w.ents[a.ret] EXCEPT
                    !.flags = flags, !.x = FP(x), !.y = FP(y),
                    !.vx = vx, !.vy = vy, !.timer = timer,
                    !.data = spriteSlot]
    IN IF a.ret < 0 THEN a.w
       ELSE [a.w EXCEPT
               !.ents[a.ret] = proj,
               !.g.projSpriteSlotFree =
                   IF spriteSlot = 255 THEN @ ELSE [@ EXCEPT ![spriteSlot] = FALSE],
               !.g.lastFreeProjSlot =
                   IF spriteSlot = 255 THEN @ ELSE spriteSlot + 1]

\* void projectile_spawn(s16 x, s16 y, s8 dx, s8 dy)
projectile_spawn(w, x, y, dx, dy) ==
    ProjectileFill(w, WorldAlloc(w, ENT_TYPE_PROJ_PLAYER),
                   ENT_ACTIVE + ENT_VISIBLE + ENT_FRIENDLY, x, y,
                   ToS16(FP(dx * 3)), ToS16(FP(dy * 3)), 60)

\* void projectile_spawn_visual(s16 x, s16 y)
projectile_spawn_visual(w, x, y) ==
    ProjectileFill(w, WorldAlloc(w, ENT_TYPE_PROJ_PLAYER),
                   ENT_ACTIVE + ENT_VISIBLE, x, y, 0, 0, 10)

\* void projectile_destroy(u8 slot)
projectile_destroy(w, slot) ==
    IF slot >= MAX_ENTITIES THEN w
    ELSE LET pSpriteIdx == ToU8(w.ents[slot].data)
             back == IF pSpriteIdx < MAX_VISIBLE_PROJECTILES
                     THEN [w EXCEPT !.g.projSpriteSlotFree[pSpriteIdx] = TRUE]
                     ELSE w
         IN WorldFree(back, slot)

\* the part of pickups_spawn after entity_alloc (a is what the call returned)
PickupFill(a, x, y, pickupType) ==
    IF a.ret < 0 THEN a.w
    ELSE [a.w EXCEPT !.ents[a.ret] =
             [@ EXCEPT
                 !.flags = ENT_ACTIVE + ENT_VISIBLE + ENT_PICKUP,
                 !.type = IF pickupType = PICKUP_HEALTH
                          THEN ENT_TYPE_PICKUP_HEALTH ELSE ENT_TYPE_PICKUP_XP,
                 !.x = FP(x), !.y = FP(y), !.vx = 0, !.vy = 0,
                 !.timer = 0,
                 !.data = IF pickupType = PICKUP_XP_BIG THEN 50 ELSE 10]]

\* void pickups_spawn(s16 x, s16 y, u8 pickupType)
pickups_spawn(w, x, y, pickupType) ==
    PickupFill(WorldAlloc(w, ENT_TYPE_PICKUP_XP), x, y, pickupType)

\* the part of director_spawnDrop after entity_alloc
DropFill(a, spawnX, spawnY) ==
    IF a.ret < 0 THEN a.w
    ELSE [a.w EXCEPT !.ents[a.ret] =
             [@ EXCEPT !.x = spawnX, !.y = spawnY,
                       !.flags = ENT_ACTIVE + ENT_PICKUP, !.timer = 255]]

\* void director_spawnDrop(void)
director_spawnDrop(w) ==
    LET player == w.ents[SLOT_PLAYER]
        offsetX == Math_randomRange(RandomValue(w), 200) - 100
        offsetY == Math_randomRange(RandomValue(RandomNext(w)), 140) - 70
        spawnX == Min(Max(ToS32(player.x + FP(offsetX)), FP(16)), FP(MAP_WIDTH - 16))
        spawnY == Min(Max(ToS32(player.y + FP(offsetY)), FP(16)), FP(MAP_HEIGHT - 16))
    IN IF ~IsActive(player) THEN w
       ELSE DropFill(WorldAlloc(RandomNext(RandomNext(w)), ENT_TYPE_PICKUP_BOMB),
                     spawnX, spawnY)

\* void director_onEnemySpawned(void): u8 liveEnemyCount++
director_onEnemySpawned(w) == [w EXCEPT !.g.liveEnemyCount = ToU8(@ + 1)]

\* variant: the kill callback without the liveEnemyCount decrement
director_onEnemyKilledNoCount(w) ==
    LET counted == [w EXCEPT !.g.enemiesRemaining = IF @ > 0 THEN @ - 1 ELSE @]
        roll == Math_randomRange(RandomValue(counted), 10)
    IN IF roll = 0 THEN director_spawnDrop(RandomNext(counted))
       ELSE RandomNext(counted)

\* void director_onEnemyKilled(void)
director_onEnemyKilled(w) ==
    LET counted == [w EXCEPT
                      !.g.enemiesRemaining = IF @ > 0 THEN @ - 1 ELSE @,
                      !.g.liveEnemyCount = IF @ > 0 THEN @ - 1 ELSE @]
        roll == Math_randomRange(RandomValue(counted), 10)
    IN IF roll = 0 THEN director_spawnDrop(RandomNext(counted))
       ELSE RandomNext(counted)

\* the game statics before game_init has run
FrameBoot ==
    /\ game = ZeroGame
    /\ events = <<>>

\* const EnemyDef EnemyDatabase[ENEMY_COUNT] (name and aiRoutine are in AIRoutine)
EnemyDatabase ==
    [id \in 0 .. (ENEMY_COUNT - 1) |->
        CASE id = ENEMY_ID_GRUNT ->
                [maxHP |-> 30, speed |-> 128, scoreValue |-> 100,
                 entityType |-> ENT_TYPE_ENEMY_BASIC]
          [] id = ENEMY_ID_RUSHER ->
                [maxHP |-> 15, speed |-> 192, scoreValue |-> 150,
                 entityType |-> ENT_TYPE_ENEMY_FAST]
          [] OTHER ->
                [maxHP |-> 100, speed |-> 64, scoreValue |-> 300,
                 entityType |-> ENT_TYPE_ENEMY_TANK]]

\* a & 0x3FF, a & 0x1FF, a & 0xFF on a non-negative value
LowBits(a, n) == a % Pow2(n)

\* the x and y enemy_spawn_by_id picks from side = random() & 3 and rnd = random()
EdgePosition(side, rnd) ==
    LET along == 16 + LowBits(rnd \div 64, 9) + LowBits(rnd \div 4, 8)
    IN CASE side = 0 -> [x |-> FP(16 + LowBits(rnd, 10)), y |-> FP(16)]
         [] side = 1 -> [x |-> FP(16 + LowBits(rnd, 10)), y |-> FP(MAP_HEIGHT - 16)]
         [] side = 2 -> [x |-> FP(16), y |-> FP(along)]
         [] OTHER -> [x |-> FP(MAP_WIDTH - 16), y |-> FP(along)]

\* variant: director_onEnemySpawned runs before the slot < 0 test
EnemyFillEager(a, id, x, y) ==
    IF a.ret < 0 THEN director_onEnemySpawned(a.w)
    ELSE [director_onEnemySpawned(a.w) EXCEPT !.ents[a.ret] =
             [@ EXCEPT !.flags = ENT_ACTIVE + ENT_VISIBLE + ENT_SOLID + ENT_ENEMY,
                       !.hp = EnemyDatabase[id].maxHP, !.frame = id, !.data = 255,
                       !.x = x, !.y = y]]

\* the slot set-up of enemy_spawn_by_id and enemy_spawn_at after entity_alloc
\* (a is what the call returned)
EnemyFill(a, id, x, y) ==
    IF a.ret < 0 THEN a.w
    ELSE [director_onEnemySpawned(a.w) EXCEPT !.ents[a.ret] =
             [@ EXCEPT !.flags = ENT_ACTIVE + ENT_VISIBLE + ENT_SOLID + ENT_ENEMY,
                       !.hp = EnemyDatabase[id].maxHP, !.frame = id, !.data = 255,
                       !.x = x, !.y = y]]

\* enemy_spawn_by_id after entity_alloc: the two random() calls are made only
\* when the allocation succeeded
EdgeFill(a, id, pos) ==
    IF a.ret < 0 THEN a.w
    ELSE RandomNext(RandomNext(EnemyFill(a, id, pos.x, pos.y)))

\* void enemy_spawn_by_id(EnemyId id)
enemy_spawn_by_id(w, id) ==
    IF id >= ENEMY_COUNT THEN w
    ELSE EdgeFill(WorldAlloc(w, EnemyDatabase[id].entityType), id,
                  EdgePosition(LowBits(RandomValue(w), 2),
                               RandomValue(RandomNext(w))))

\* void enemy_spawn_at(s32 x, s32 y)
enemy_spawn_at(w, x, y) ==
    EnemyFill(WorldAlloc(w, ENT_TYPE_ENEMY_BASIC), ENEMY_ID_GRUNT, x, y)

\* void enemy_spawn_at_edge(void)
enemy_spawn_at_edge(w) == enemy_spawn_by_id(w, ENEMY_ID_GRUNT)

\* the DEATH branch of enemy_damage after the XP drop: hide, score, sprite
\* slot back to the pool, entity_free, director_onEnemyKilled
EnemyRelease(w, slot, id, spriteIdx) ==
    director_onEnemyKilled(WorldFree(
        [w EXCEPT
            !.ents[slot].flags = ClearFlag(@, ENT_VISIBLE),
            !.ents[slot].timer = 0,
            !.g.score = ToU32(@ + EnemyDatabase[id].scoreValue),
            !.g.spriteSlotFree = IF spriteIdx < MAX_VISIBLE_ENEMIES
                                 THEN [@ EXCEPT ![spriteIdx] = TRUE] ELSE @,
            !.ents[slot].data = IF spriteIdx < MAX_VISIBLE_ENEMIES THEN 255 ELSE @],
        slot))

\* variant: the DEATH branch spawns a new enemy where the old one died
EnemyDeathRespawn(w, slot) ==
    LET enemy == w.ents[slot]
    IN enemy_spawn_at(
           EnemyRelease(pickups_spawn([w EXCEPT !.ents[slot].hp = 0],
                                      ToS16(FP_INT(enemy.x)), ToS16(FP_INT(enemy.y)),
                                      PICKUP_XP_SMALL),
                        slot,
                        IF enemy.frame < ENEMY_COUNT THEN enemy.frame ELSE ENEMY_ID_GRUNT,
                        ToU8(enemy.data)),
           enemy.x, enemy.y)

\* the DEATH branch of enemy_damage
EnemyDeath(w, slot) ==
    LET enemy == w.ents[slot]
    IN EnemyRelease(pickups_spawn([w EXCEPT !.ents[slot].hp = 0],
                                  ToS16(FP_INT(enemy.x)), ToS16(FP_INT(enemy.y)),
                                  PICKUP_XP_SMALL),
                    slot,
                    IF enemy.frame < ENEMY_COUNT THEN enemy.frame ELSE ENEMY_ID_GRUNT,
                    ToU8(enemy.data))

\* void enemy_damage(u8 slot, u8 dmg)
enemy_damage(w, slot, dmg) ==
    IF slot < MAX_ENTITIES /\ IsActive(w.ents[slot])
    THEN IF w.ents[slot].hp > dmg
         THEN [w EXCEPT !.ents[slot].hp = @ - dmg, !.ents[slot].timer = 4]
         ELSE EnemyDeath(w, slot)
    ELSE w

\* the loop of director_activateBomb from slot i on
RECURSIVE BombLoop(_, _)
BombLoop(w, i) ==
    IF i > SLOT_ENEMIES_END \/ i >= MAX_ENTITIES \/ ~Done(w) THEN w
    ELSE BombLoop(IF IsActive(w.ents[i]) THEN enemy_damage(w, i, 60) ELSE w, i + 1)

\* void director_activateBomb(void)
director_activateBomb(w) == BombLoop(w, SLOT_ENEMIES_START)

\* the velocity component the AI routines pick for a distance d on one axis
Toward(d, speed) == IF d > 4 THEN speed ELSE IF d < -4 THEN -speed ELSE 0

\* void AI_Chase(Entity *self, s32 targetX, s32 targetY)
AI_Chase(self, targetX, targetY) ==
    LET dx == ToS16(ToS16(FP_INT(targetX)) - ToS16(FP_INT(self.x)))
        dy == ToS16(ToS16(FP_INT(targetY)) - ToS16(FP_INT(self.y)))
        id == IF self.frame < ENEMY_COUNT THEN self.frame ELSE ENEMY_ID_GRUNT
        speed == EnemyDatabase[id].speed
        manhattanDist == ToS16(ToS16(Abs(dx)) + ToS16(Abs(dy)))
    IN IF manhattanDist > 72
       THEN [self EXCEPT !.vx = Toward(dx, speed), !.vy = Toward(dy, speed)]
       ELSE [self EXCEPT !.vx = IF dy > 0 THEN speed ELSE -speed,
                         !.vy = IF dx > 0 THEN -speed ELSE speed]

\* void AI_Flank(Entity *self, s32 targetX, s32 targetY)
AI_Flank(self, targetX, targetY) ==
    LET dx0 == ToS16(ToS16(FP_INT(targetX)) - ToS16(FP_INT(self.x)))
        dy0 == ToS16(ToS16(FP_INT(targetY)) - ToS16(FP_INT(self.y)))
        id == IF self.frame < ENEMY_COUNT THEN self.frame ELSE ENEMY_ID_RUSHER
        speed == EnemyDatabase[id].speed
        dx == ToS16(dx0 + (IF dy0 > 0 THEN 32 ELSE -32))
        dy == ToS16(dy0 + (IF dx0 > 0 THEN -32 ELSE 32))
    IN [self EXCEPT !.vx = Toward(dx, speed), !.vy = Toward(dy, speed)]

\* def->aiRoutine(enemy, targetX, targetY) for the EnemyDatabase entry id
AIRoutine(id, self, targetX, targetY) ==
    IF id = ENEMY_ID_RUSHER THEN AI_Flank(self, targetX, targetY)
    ELSE AI_Chase(self, targetX, targetY)

\* the on-screen branch of "Sprite Culling & Update": s is what
\* findFreeSpriteSlot returned
EnemyShow(w, slot, spriteIdx, s) ==
    IF spriteIdx = 255 /\ s # 255
    THEN [w EXCEPT !.g.spriteSlotFree[s] = FALSE,
                   !.g.lastFreeSpriteHint = s + 1,
                   !.ents[slot].data = s]
    ELSE w

\* variant: an enemy that leaves the screen drops its sprite index and the
\* index stays marked not-free
EnemySpriteKeepSlot(w, slot) ==
    LET enemy == w.ents[slot]
        screenX == ToS16(FP_INT(enemy.x) - ToS16(FP_INT(w.g.cameraX)))
        screenY == ToS16(FP_INT(enemy.y) - ToS16(FP_INT(w.g.cameraY)))
        spriteIdx == ToU8(enemy.data)
    IN IF screenX > -64 /\ screenX < SCREEN_WIDTH + 64
          /\ screenY > -64 /\ screenY < SCREEN_HEIGHT + 64
       THEN EnemyShow(w, slot, spriteIdx, findFreeSpriteSlot(w.g))
       ELSE IF spriteIdx # 255
            THEN [w EXCEPT !.ents[slot].data = 255]
            ELSE w

\* the "Sprite Culling & Update" part of the enemy loop for one enemy
EnemySprite(w, slot) ==
    LET enemy == w.ents[slot]
        screenX == ToS16(FP_INT(enemy.x) - ToS16(FP_INT(w.g.cameraX)))
        screenY == ToS16(FP_INT(enemy.y) - ToS16(FP_INT(w.g.cameraY)))
        spriteIdx == ToU8(enemy.data)
    IN IF screenX > -64 /\ screenX < SCREEN_WIDTH + 64
          /\ screenY > -64 /\ screenY < SCREEN_HEIGHT + 64
       THEN EnemyShow(w, slot, spriteIdx, findFreeSpriteSlot(w.g))
       ELSE IF spriteIdx # 255
            THEN [w EXCEPT !.g.spriteSlotFree =
                               IF spriteIdx < MAX_VISIBLE_ENEMIES
                               THEN [@ EXCEPT ![spriteIdx] = TRUE] ELSE @,
                           !.ents[slot].data = 255]
            ELSE w

\* the AI call of the enemy loop: every fourth frame for each slot
EnemyThink(w, slot, e) ==
    IF slot % 4 = w.frame % 4
    THEN AIRoutine(IF e.frame < ENEMY_COUNT THEN e.frame ELSE ENEMY_ID_GRUNT,
                   e, FP(TOWER_X), FP(TOWER_Y))
    ELSE e

\* enemy->x += enemy->vx; enemy->y += enemy->vy
EnemyMove(e) == [e EXCEPT !.x = ToS32(@ + e.vx), !.y = ToS32(@ + e.vy)]

\* spatial_insert(slot, enemy->x, enemy->y) on a world; grid is what the call
\* leaves in firstInCell and nextEntity
EnemyInsert(w, slot, e, grid) ==
    Emit([w EXCEPT !.ents[slot] = e,
                   !.first = grid.firstInCell,
                   !.next = grid.nextEntity],
         "insert", slot, spatial_getCellIndex(e.x, e.y))

\* the enemy loop from the spatial_insert call on, e being the moved enemy
EnemyPlace(w, slot, e) ==
    EnemySprite(EnemyInsert(w, slot, e,
                            spatial_insert(w.first, w.next, slot, e.x, e.y)),
                slot)

\* the body of the enemy loop of enemies_update for one slot
EnemyStep(w, slot) ==
    IF IsActive(w.ents[slot]) /\ HasFlag(w.ents[slot].flags, ENT_VISIBLE)
    THEN EnemyPlace(w, slot,
             EnemyMove(EnemyThink(w, slot,
                 [w.ents[slot] EXCEPT !.timer = IF @ > 0 THEN @ - 1 ELSE @])))
    ELSE w

\* for (; enemy <= end; enemy++) from slot i on
RECURSIVE EnemyLoop(_, _)
EnemyLoop(w, i) ==
    IF i > SLOT_ENEMIES_END \/ ~Done(w) THEN w
    ELSE EnemyLoop(EnemyStep(w, i), i + 1)

\* the refill after the enemy loop of enemies_update
EnemyRefill(w) ==
    IF w.g.liveEnemyCount < 4 THEN enemy_spawn_at_edge(w) ELSE w

\* void enemies_update(void)
enemies_update(w) == EnemyRefill(EnemyLoop(w, SLOT_ENEMIES_START))

\* the collision branch of the projectile loop once the query has returned hitSlot
ProjectileResolve(w, i, hitSlot) ==
    IF hitSlot # 255
    THEN projectile_destroy(enemy_damage(Emit(w, "query", i, hitSlot), hitSlot, 10), i)
    ELSE Emit(w, "query", i, hitSlot)

\* the collision branch of the projectile loop for projectile i
ProjectileHit(w, i) ==
    ProjectileResolve(w, i,
        spatial_checkCollisionThreeGate(w.ents, w.first, w.next, i,
                                        COLL_ENEMY, w.frame))

\* the body of the projectile loop of projectiles_update for slot i
ProjectileStep(w, i) ==
    LET p0 == w.ents[i]
        p1 == [p0 EXCEPT !.x = ToS32(@ + p0.vx), !.y = ToS32(@ + p0.vy),
                         !.timer = IF @ > 0 THEN @ - 1 ELSE @]
        moved == [w EXCEPT !.ents[i] = p1]
    IN IF HighNibble(p0.type) # ENT_TYPE_PROJ_PLAYER \/ ~IsActive(p0) THEN w
       ELSE IF p1.timer = 0 \/ p1.x < 0 \/ p1.x > FP(MAP_WIDTH)
               \/ p1.y < 0 \/ p1.y > FP(MAP_HEIGHT)
       THEN projectile_destroy(moved, i)
       ELSE ProjectileHit(moved, i)

\* for (u8 i = SLOT_PROJ_START; i <= SLOT_PROJ_END; i++) from slot i on
RECURSIVE ProjectileLoop(_, _)
ProjectileLoop(w, i) ==
    IF i > SLOT_PROJ_END \/ ~Done(w) THEN w
    ELSE ProjectileLoop(ProjectileStep(w, i), i + 1)

\* void projectiles_update(void)
projectiles_update(w) == ProjectileLoop(w, SLOT_PROJ_START)

\* (s16)(x >> 8)
Pixel(x) == ToS16(FP_INT(x))

\* the enemy slots from i on that pass the FOLLOW-mode scan (within 64 px on
\* both axes of the companion); the scan takes the lowest
FollowScan(w) ==
    LET fenrir == w.ents[SLOT_FENRIR]
        near == {i \in SLOT_ENEMIES_START .. SLOT_ENEMIES_END :
                    /\ IsActive(w.ents[i])
                    /\ Abs(ToS16(Pixel(w.ents[i].x) - Pixel(fenrir.x))) < 64
                    /\ Abs(ToS16(Pixel(w.ents[i].y) - Pixel(fenrir.y))) < 64}
    IN IF near = {} THEN 255 ELSE CHOOSE i \in near : \A j \in near : i <= j

\* the ATTACK-mode scan: the first slot at the least Manhattan distance below FP(96)
AttackScan(w) ==
    LET fenrir == w.ents[SLOT_FENRIR]
        Dist(i) == Abs(w.ents[i].x - fenrir.x) + Abs(w.ents[i].y - fenrir.y)
        near == {i \in SLOT_ENEMIES_START .. SLOT_ENEMIES_END :
                    IsActive(w.ents[i]) /\ Dist(i) < FP(96)}
    IN IF near = {} THEN 255
       ELSE CHOOSE i \in near :
               \A j \in near : Dist(i) < Dist(j) \/ (Dist(i) = Dist(j) /\ i <= j)

\* case FENRIR_MODE_FOLLOW of fenrir_update
FenrirFollow(w) ==
    LET found == IF w.g.searchTimer = 0 THEN FollowScan(w) ELSE 255
        searched == IF w.g.searchTimer = 0
                    THEN [w EXCEPT
                            !.g.searchTimer = FENRIR_SEARCH_INTERVAL,
                            !.g.cachedTargetSlot = IF found # 255 THEN found ELSE @,
                            !.g.currentMode =
                                IF found # 255 THEN FENRIR_MODE_ATTACK ELSE @]
                    ELSE w
        fenrir == w.ents[SLOT_FENRIR]
        player == w.ents[SLOT_PLAYER]
        dx == ToS16(Pixel(player.x) - Pixel(fenrir.x))
        dy == ToS16(Pixel(player.y) - Pixel(fenrir.y))
    IN IF Abs(dx) > 48 \/ Abs(dy) > 48
       THEN [searched EXCEPT !.ents[SLOT_FENRIR].vx = Toward(dx, FENRIR_SPEED),
                             !.ents[SLOT_FENRIR].vy = Toward(dy, FENRIR_SPEED)]
       ELSE [searched EXCEPT !.ents[SLOT_FENRIR].vx = 0,
                             !.ents[SLOT_FENRIR].vy = 0]

\* case FENRIR_MODE_ATTACK of fenrir_update; target is the valid cached slot or 255
FenrirAttack(w, target) ==
    LET fenrir == w.ents[SLOT_FENRIR]
        dx == ToS32(w.ents[target].x - fenrir.x)
        dy == ToS32(w.ents[target].y - fenrir.y)
        Axis(d) == IF d > FP(2) THEN FENRIR_SPEED
                   ELSE IF d < -FP(2) THEN -FENRIR_SPEED ELSE 0
        steered == [w EXCEPT !.ents[SLOT_FENRIR].vx = Axis(dx),
                             !.ents[SLOT_FENRIR].vy = Axis(dy)]
        found == IF w.g.searchTimer = 0 THEN AttackScan(w) ELSE 255
    IN IF target # 255
       THEN IF fenrir.timer = 0
            THEN IF Abs(dx) < FP(24) /\ Abs(dy) < FP(24)
                 THEN [enemy_damage(steered, w.g.cachedTargetSlot, 25)
                          EXCEPT !.ents[SLOT_FENRIR].timer = 20]
                 ELSE steered
            ELSE [steered EXCEPT !.ents[SLOT_FENRIR].timer = @ - 1]
       ELSE [w EXCEPT
               !.g.searchTimer = IF @ = 0 THEN FENRIR_SEARCH_INTERVAL ELSE @,
               !.g.cachedTargetSlot = found,
               !.g.currentMode = IF found = 255 THEN FENRIR_MODE_FOLLOW ELSE @]

\* "Apply velocity" and "Clamp to map bounds" of fenrir_update
FenrirMove(w) ==
    LET fenrir == w.ents[SLOT_FENRIR]
    IN [w EXCEPT
          !.ents[SLOT_FENRIR].x =
              Min(Max(ToS32(fenrir.x + fenrir.vx), FP(16)), FP(MAP_WIDTH - 16)),
          !.ents[SLOT_FENRIR].y =
              Min(Max(ToS32(fenrir.y + fenrir.vy), FP(16)), FP(MAP_HEIGHT - 16))]

\* void fenrir_update(void)
fenrir_update(w) ==
    LET cached == w.g.cachedTargetSlot
        valid == cached # 255 /\ cached < MAX_ENTITIES /\ IsActive(w.ents[cached])
        target == IF valid THEN cached ELSE 255
        checked == [w EXCEPT
                      !.g.searchTimer = IF @ > 0 THEN @ - 1 ELSE @,
                      !.g.cachedTargetSlot =
                          IF cached # 255 /\ cached < MAX_ENTITIES /\ ~valid
                          THEN 255 ELSE @]
        acted == CASE w.g.currentMode = FENRIR_MODE_FOLLOW -> FenrirFollow(checked)
                   [] w.g.currentMode = FENRIR_MODE_ATTACK -> FenrirAttack(checked, target)
                   [] OTHER -> [checked EXCEPT !.g.currentMode = FENRIR_MODE_FOLLOW]
    IN IF ~IsActive(w.ents[SLOT_FENRIR]) \/ ~IsActive(w.ents[SLOT_PLAYER]) THEN w
       ELSE FenrirMove(acted)

\* |ax - bx| + |ay - by| in the 16-bit pixel math of pickups_update
PixelManhattan(a, b) ==
    ToS16(Abs(ToS16(Pixel(a.x) - Pixel(b.x))) + Abs(ToS16(Pixel(a.y) - Pixel(b.y))))

\* "Player Interaction", collection branch, for the pickup in slot i
PickupCollect(w, i) ==
    LET p == w.ents[i]
        gained == IF p.type = ENT_TYPE_PICKUP_XP
                  THEN [w EXCEPT !.g.playerXP = ToU32(@ + p.data)]
                  ELSE IF p.type = ENT_TYPE_PICKUP_BOMB THEN director_activateBomb(w)
                  ELSE w
    IN WorldFree(gained, i)

\* "Fenrir Collection" for the pickup in slot i
PickupFenrir(w, i) ==
    LET p == w.ents[i]
        fenrir == w.ents[SLOT_FENRIR]
    IN IF p.type = ENT_TYPE_PICKUP_XP /\ IsActive(fenrir)
          /\ Abs(ToS16(Pixel(fenrir.x) - Pixel(p.x)))
               + Abs(ToS16(Pixel(fenrir.y) - Pixel(p.y))) < 20
       THEN WorldFree([w EXCEPT !.g.playerXP = ToU32(@ + 10)], i)
       ELSE w

\* the body of the pickup loop of pickups_update for slot i
PickupStep(w, i) ==
    LET p == w.ents[i]
        player == w.ents[SLOT_PLAYER]
        dist == PixelManhattan(player, p)
        pulled == IF IsActive(player) /\ p.type = ENT_TYPE_PICKUP_XP /\ dist < 80
                  THEN [w EXCEPT
                          !.ents[i].x = ToS32(@ + (ToS32(player.x - p.x) \div 16)),
                          !.ents[i].y = ToS32(@ + (ToS32(player.y - p.y) \div 16))]
                  ELSE w
    IN IF ~IsActive(p) \/ ~HasFlag(p.flags, ENT_PICKUP) THEN w
       ELSE IF IsActive(player) /\ dist < 20 THEN PickupCollect(w, i)
       ELSE PickupFenrir(pulled, i)

\* for (; p <= end; p++, i++) from slot i on
RECURSIVE PickupLoop(_, _)
PickupLoop(w, i) ==
    IF i > SLOT_TOWERS_END \/ ~Done(w) THEN w
    ELSE PickupLoop(PickupStep(w, i), i + 1)

\* void pickups_update(void)
pickups_update(w) == PickupLoop(w, SLOT_TOWERS_START)

\* the joypad buttons the game reads (bits of the u16 JOY_readJoypad returns)
Buttons == {"UP", "DOWN", "LEFT", "RIGHT", "A", "B", "C", "START"}

\* bool input_isHeld(u16 button)
input_isHeld(g, button) == button \in g.current

\* bool input_justPressed(u16 button)
input_justPressed(g, button) == button \in g.pressed

\* void input_update(void); joypad is the value JOY_readJoypad returns
input_update(g, joypad) ==
    [g EXCEPT !.current = joypad, !.pressed = joypad \ g.current]

UPGRADE_COSTS == <<50, 75, 150, 100, 60>>
UPGRADE_MAX == <<5, 4, 1, 1, 3>>
FIRE_RATE_TABLE == <<10, 8, 7, 6, 5, 4>>

\* static bool purchaseUpgrade(u8 type); upgrades[type + 1] is the level
\* getUpgradeLevel(type) returns
purchaseUpgrade(g, type) ==
    IF g.upgrades[type + 1] >= UPGRADE_MAX[type + 1] THEN g
    ELSE IF g.playerXP < UPGRADE_COSTS[type + 1] THEN g
    ELSE [g EXCEPT
            !.playerXP = @ - UPGRADE_COSTS[type + 1],
            !.upgrades[type + 1] =
                IF type \in {UPGRADE_SPREAD, UPGRADE_FENRIR} THEN 1 ELSE ToU8(@ + 1)]

\* void upgrade_menu_update(void)
upgrade_menu_update(g) ==
    LET up == IF "UP" \in g.pressed /\ g.selectedUpgrade > 0
              THEN [g EXCEPT !.selectedUpgrade = @ - 1] ELSE g
        down == IF "DOWN" \in g.pressed /\ up.selectedUpgrade < UPGRADE_COUNT - 1
                THEN [up EXCEPT !.selectedUpgrade = @ + 1] ELSE up
        bought == IF "C" \in g.pressed
                  THEN purchaseUpgrade(down, down.selectedUpgrade) ELSE down
    IN IF ~g.menuOpen THEN g
       ELSE IF "START" \in g.pressed THEN [bought EXCEPT !.menuOpen = FALSE]
       ELSE bought

\* void upgrade_menu_open(void)
upgrade_menu_open(g) == [g EXCEPT !.menuOpen = TRUE, !.selectedUpgrade = 0]

\* void upgrade_menu_init(void)
upgrade_menu_init(g) ==
    [g EXCEPT !.upgrades = <<0, 0, 0, 0, 0>>, !.menuOpen = FALSE,
              !.selectedUpgrade = 0]

\* u8 upgrade_getFireRate(void)
upgrade_getFireRate(g) == FIRE_RATE_TABLE[g.upgrades[UPGRADE_FIRE_RATE + 1] + 1]

\* the D-pad bitmask of player_update (bit 0 UP, 1 DOWN, 2 LEFT, 3 RIGHT)
InputState(g) ==
    (IF input_isHeld(g, "UP") THEN 1 ELSE 0) + (IF input_isHeld(g, "DOWN") THEN 2 ELSE 0)
    + (IF input_isHeld(g, "LEFT") THEN 4 ELSE 0)
    + (IF input_isHeld(g, "RIGHT") THEN 8 ELSE 0)

\* static const s16 INPUT_VECTORS[16][2], entry inputState + 1
INPUT_VECTORS ==
    << <<0, 0>>, <<0, -256>>, <<0, 256>>, <<0, 0>>,
       <<-256, 0>>, <<-181, -181>>, <<-181, 181>>, <<-256, 0>>,
       <<256, 0>>, <<181, -181>>, <<181, 181>>, <<256, 0>>,
       <<0, 0>>, <<0, -256>>, <<0, 256>>, <<0, 0>> >>

\* static const u8 INPUT_FACING[16], entry inputState + 1
INPUT_FACING ==
    << DIR_DOWN, DIR_UP, DIR_DOWN, DIR_DOWN,
       DIR_LEFT, DIR_UP_LEFT, DIR_DOWN_LEFT, DIR_LEFT,
       DIR_RIGHT, DIR_UP_RIGHT, DIR_DOWN_RIGHT, DIR_RIGHT,
       DIR_DOWN, DIR_UP, DIR_DOWN, DIR_DOWN >>

\* (move << 1) + (move >> 1) in s16
DashBoost(move) == ToS16(ToS16(move * 2) + (move \div 2))

\* dx (dy) of the direction a facing points to
FacingDx(facing) ==
    CASE facing \in {DIR_LEFT, DIR_UP_LEFT, DIR_DOWN_LEFT} -> -1
      [] facing \in {DIR_RIGHT, DIR_UP_RIGHT, DIR_DOWN_RIGHT} -> 1
      [] OTHER -> 0

FacingDy(facing) ==
    CASE facing \in {DIR_UP, DIR_UP_LEFT, DIR_UP_RIGHT} -> -1
      [] facing \in {DIR_DOWN, DIR_DOWN_LEFT, DIR_DOWN_RIGHT} -> 1
      [] OTHER -> 0

\* static void player_update(void)
player_update(w) ==
    LET g == w.g
        player == w.ents[SLOT_PLAYER]
        inputState == InputState(g)
        moveX0 == ToS16((PLAYER_SPEED * INPUT_VECTORS[inputState + 1][1]) \div 256)
        moveY0 == ToS16((PLAYER_SPEED * INPUT_VECTORS[inputState + 1][2]) \div 256)
        facing == IF g.strafeLocked = 0 /\ (moveX0 # 0 \/ moveY0 # 0)
                  THEN INPUT_FACING[inputState + 1] ELSE g.facing
        cooldown0 == IF g.dashCooldown > 0 THEN g.dashCooldown - 1 ELSE g.dashCooldown
        dash == input_justPressed(g, "C") /\ g.dashTimer = 0 /\ cooldown0 = 0
        timer0 == IF dash THEN DASH_DURATION ELSE g.dashTimer
        cooldown == IF dash THEN DASH_COOLDOWN ELSE cooldown0
        dashing == timer0 > 0
        moveX == IF dashing THEN DashBoost(moveX0) ELSE moveX0
        moveY == IF dashing THEN DashBoost(moveY0) ELSE moveY0
        invuln0 == IF dashing THEN 2 ELSE g.invulnTimer
        halfW == FP(PLAYER_WIDTH \div 2)
        halfH == FP(PLAYER_HEIGHT \div 2)
        x == Min(Max(ToS32(player.x + moveX), halfW), FP(MAP_WIDTH) - halfW)
        y == Min(Max(ToS32(player.y + moveY), halfH), FP(MAP_HEIGHT) - halfH)
    IN IF ~IsActive(player) THEN w
       ELSE [w EXCEPT
               !.g.facing = facing,
               !.g.strafeLocked = IF input_isHeld(g, "A") THEN 1 ELSE 0,
               !.g.dashCooldown = cooldown,
               !.g.dashTimer = IF dashing THEN timer0 - 1 ELSE timer0,
               !.g.invulnTimer = IF invuln0 > 0 THEN invuln0 - 1 ELSE invuln0,
               !.ents[SLOT_PLAYER].vx = moveX,
               !.ents[SLOT_PLAYER].vy = moveY,
               !.ents[SLOT_PLAYER].x = x,
               !.ents[SLOT_PLAYER].y = y]

\* the camera coordinate after one camera_update on one axis
CameraAxis(camera, pos, center, dead, limit) ==
    LET screen == ToS32(pos - camera)
        moved == IF screen < center - dead
                 THEN ToS32(camera - ((center - dead - screen) \div 4))
                 ELSE IF screen > center + dead
                 THEN ToS32(camera + ((screen - center - dead) \div 4))
                 ELSE camera
    IN Min(Max(moved, 0), limit)

\* static void camera_update(void)
camera_update(w) ==
    LET player == w.ents[SLOT_PLAYER]
    IN IF ~IsActive(player) THEN w
       ELSE [w EXCEPT
               !.g.cameraX = CameraAxis(@, player.x, FP(SCREEN_WIDTH \div 2),
                                        FP(CAMERA_DEADZONE_X),
                                        FP(MAP_WIDTH - SCREEN_WIDTH)),
               !.g.cameraY = CameraAxis(@, player.y, FP(SCREEN_HEIGHT \div 2),
                                        FP(CAMERA_DEADZONE_Y),
                                        FP(MAP_HEIGHT - SCREEN_HEIGHT))]

\* the enemy loop of player_melee_attack from slot i on
RECURSIVE MeleeLoop(_, _, _, _)
MeleeLoop(w, i, hitX, hitY) ==
    IF i > SLOT_ENEMIES_END \/ ~Done(w) THEN w
    ELSE MeleeLoop(IF IsActive(w.ents[i]) /\ Abs(w.ents[i].x - hitX) < FP(24)
                      /\ Abs(w.ents[i].y - hitY) < FP(24)
                   THEN enemy_damage(w, i, 50) ELSE w,
                   i + 1, hitX, hitY)

\* static void player_melee_attack(void)
player_melee_attack(w) ==
    LET player == w.ents[SLOT_PLAYER]
        hitX == player.x + FacingDx(w.g.facing) * FP(32)
        hitY == player.y + FacingDy(w.g.facing) * FP(32)
    IN IF ~IsActive(player) THEN w
       ELSE MeleeLoop(projectile_spawn_visual(w, ToS16(FP_INT(hitX)),
                                              ToS16(FP_INT(hitY))),
                      SLOT_ENEMIES_START, hitX, hitY)

\* void director_init(void)
director_init(g) ==
    [g EXCEPT !.waveNumber = 0, !.waveTimer = 0,
              !.spawnInterval = BASE_SPAWN_INTERVAL,
              !.enemiesPerSpawn = BASE_ENEMIES_PER_SPAWN,
              !.enemiesRemaining = 0, !.bossActive = 0, !.liveEnemyCount = 0]

\* the difficulty scaling of director_startWave
WaveScale(w, waveNum) ==
    LET interval == ToU16(BASE_SPAWN_INTERVAL - waveNum * 10)
        perSpawn == ToU8(BASE_ENEMIES_PER_SPAWN + waveNum \div 3)
    IN [w EXCEPT
          !.g.waveNumber = waveNum,
          !.g.spawnInterval =
              IF interval < MIN_SPAWN_INTERVAL
              THEN MIN_SPAWN_INTERVAL ELSE interval,
          !.g.enemiesPerSpawn =
              IF perSpawn > MAX_ENEMIES_PER_SPAWN
              THEN MAX_ENEMIES_PER_SPAWN ELSE perSpawn,
          !.g.enemiesRemaining = ToU16(WAVE_ENEMY_COUNT_BASE + waveNum * 4)]

\* the boss of every BOSS_WAVE_INTERVAL-th wave
WaveBoss(w, waveNum) ==
    IF waveNum % BOSS_WAVE_INTERVAL = 0 /\ waveNum > 0
    THEN [enemy_spawn_by_id(w, ENEMY_ID_TANK) EXCEPT !.g.bossActive = 1]
    ELSE w

\* waveTimer = spawnInterval
WaveArm(w) == [w EXCEPT !.g.waveTimer = w.g.spawnInterval]

\* void director_startWave(u16 waveNum)
director_startWave(w, waveNum) == WaveArm(WaveBoss(WaveScale(w, waveNum), waveNum))

\* for (u8 i = 0; i < toSpawn; i++) enemy_spawn_by_id(spawnType), n calls left
RECURSIVE SpawnBatch(_, _, _)
SpawnBatch(w, spawnType, n) ==
    IF n = 0 \/ ~Done(w) THEN w
    ELSE CHOOSE after \in {SpawnBatch(spawned, spawnType, n - 1) :
                              spawned \in {enemy_spawn_by_id(w, spawnType)}} : TRUE

\* variant: the batch is not cut down to the room left under MAX_ACTIVE_ENEMIES
DirectorSpawnNoCap(w) ==
    LET activeEnemies == w.g.liveEnemyCount
        mix3 == w.g.waveNumber >= 3
        type3 == IF mix3 /\ Math_randomRange(RandomValue(w), 3) = 0
                 THEN ENEMY_ID_RUSHER ELSE ENEMY_ID_GRUNT
        w3 == IF mix3 THEN RandomNext(w) ELSE w
        mix6 == w.g.waveNumber >= 6
        roll == ToU8(Math_randomRange(RandomValue(w3), 5))
        spawnType == IF mix6 /\ roll = 0 THEN ENEMY_ID_TANK
                     ELSE IF mix6 /\ roll = 1 THEN ENEMY_ID_RUSHER
                     ELSE type3
        w6 == IF mix6 THEN RandomNext(w3) ELSE w3
    IN IF activeEnemies < MAX_ACTIVE_ENEMIES
       THEN SpawnBatch(w6, spawnType, ToU8(w.g.enemiesPerSpawn))
       ELSE w

\* the "Only spawn if under limit" block of director_update
DirectorSpawn(w) ==
    LET activeEnemies == w.g.liveEnemyCount
        mix3 == w.g.waveNumber >= 3
        type3 == IF mix3 /\ Math_randomRange(RandomValue(w), 3) = 0
                 THEN ENEMY_ID_RUSHER ELSE ENEMY_ID_GRUNT
        w3 == IF mix3 THEN RandomNext(w) ELSE w
        mix6 == w.g.waveNumber >= 6
        roll == ToU8(Math_randomRange(RandomValue(w3), 5))
        spawnType == IF mix6 /\ roll = 0 THEN ENEMY_ID_TANK
                     ELSE IF mix6 /\ roll = 1 THEN ENEMY_ID_RUSHER
                     ELSE type3
        w6 == IF mix6 THEN RandomNext(w3) ELSE w3
        perSpawn == ToU8(w.g.enemiesPerSpawn)
        toSpawn == IF activeEnemies + perSpawn > MAX_ACTIVE_ENEMIES
                   THEN MAX_ACTIVE_ENEMIES - activeEnemies ELSE perSpawn
    IN IF activeEnemies < MAX_ACTIVE_ENEMIES THEN SpawnBatch(w6, spawnType, toSpawn)
       ELSE w

\* void director_update(void)
director_update(w) ==
    IF w.g.waveNumber = 0 THEN director_startWave(w, 1)
    ELSE IF w.g.enemiesRemaining = 0 /\ w.g.bossActive = 0
    THEN director_startWave(w, ToU16(w.g.waveNumber + 1))
    ELSE IF w.g.waveTimer > 0 THEN [w EXCEPT !.g.waveTimer = @ - 1]
    ELSE WaveArm(DirectorSpawn(w))

\* the cells of the 3x3 block round (cellX, cellY) in the order of the two
\* for loops (dy outer, dx inner), without those outside the grid
ContactCells(cellX, cellY) ==
    LET Cell(k) ==
            LET nx == ToS8(cellX) + ((k % 3) - 1)
                ny == ToS8(cellY) + ((k \div 3) - 1)
            IN IF nx < 0 \/ nx >= SPATIAL_GRID_W \/ ny < 0 \/ ny >= SPATIAL_GRID_H
               THEN <<>>
               ELSE <<nx + ny * Pow2(SPATIAL_GRID_W_SHIFT)>>
    IN Cell(0) \o Cell(1) \o Cell(2) \o Cell(3) \o Cell(4) \o Cell(5)
       \o Cell(6) \o Cell(7) \o Cell(8)

\* the test the contact walk applies to the entity in slot: TRUE when it
\* damages the player
ContactHit(ents, slot) ==
    LET player == ents[SLOT_PLAYER]
        enemy == ents[slot]
    IN /\ IsActive(enemy)
       /\ HasFlag(enemy.flags, ENT_ENEMY)
       /\ Abs(ToS16(Pixel(player.x) - Pixel(enemy.x))) < 20
       /\ Abs(ToS16(Pixel(player.y) - Pixel(enemy.y))) < 20

\* the damage branch of the contact walk
ContactDamage(w) ==
    IF w.g.currentHP > 10
    THEN [w EXCEPT !.g.currentHP = @ - 10, !.g.invulnTimer = 60]
    ELSE [w EXCEPT !.g.currentHP = 0, !.g.state = STATE_GAMEOVER]

\* while (slot != SPATIAL_NULL && !hit) over the cells still to visit; left
\* bounds the nodes of one list
RECURSIVE ContactWalk(_, _, _, _)
ContactWalk(w, cells, slot, left) ==
    IF ~Done(w) THEN w
    ELSE IF slot = SPATIAL_NULL \/ slot >= MAX_ENTITIES \/ left = 0
    THEN IF cells = <<>> THEN w
         ELSE ContactWalk(w, Tail(cells), w.first[Head(cells)], MAX_ENTITIES)
    ELSE IF ContactHit(w.ents, slot)
    THEN ContactDamage(Emit(w, "walk", slot, 1))
    ELSE ContactWalk(Emit(w, "walk", slot, 0), cells, w.next[slot], left - 1)

\* the "Enemy->Player collision damage" block of update_siege
ContactCheck(w) ==
    LET player == w.ents[SLOT_PLAYER]
        cellX == Min(ToU8(FP_INT(player.x) \div Pow2(SPATIAL_CELL_SHIFT)),
                     SPATIAL_GRID_W - 1)
        cellY == Min(ToU8(FP_INT(player.y) \div Pow2(SPATIAL_CELL_SHIFT)),
                     SPATIAL_GRID_H - 1)
    IN IF IsActive(player) /\ w.g.invulnTimer = 0
       THEN ContactWalk(Emit(w, "contact", SLOT_PLAYER, 255),
                        ContactCells(cellX, cellY), SPATIAL_NULL, MAX_ENTITIES)
       ELSE w

\* the "BUTTON A: Strafe Lock AND Fire" block of update_siege
PlayerFire(w) ==
    LET player == w.ents[SLOT_PLAYER]
        shot == projectile_spawn(w, ToS16(FP_INT(player.x)), ToS16(FP_INT(player.y)),
                                 FacingDx(w.g.facing), FacingDy(w.g.facing))
    IN IF input_isHeld(w.g, "A") /\ w.g.fireCooldown = 0 /\ IsActive(player)
       THEN [shot EXCEPT !.g.fireCooldown = upgrade_getFireRate(w.g)]
       ELSE w

\* variant: projectiles_update runs before enemies_update
SiegeSubsystemsProjFirst(w) ==
    pickups_update(fenrir_update(enemies_update(projectiles_update(director_update(w)))))

\* the subsystem calls of update_siege, director_update to pickups_update
\* (towers_update is empty)
SiegeSubsystems(w) ==
    pickups_update(fenrir_update(projectiles_update(enemies_update(director_update(w)))))

\* the timers at the head of "NORMAL SIEGE LOGIC"
SiegeTimers(w) ==
    [w EXCEPT
        !.g.siegeTimer = IF @ > 0 THEN @ - 1 ELSE @,
        !.g.gateOpen = IF w.g.siegeTimer = 1 THEN 1 ELSE @,
        !.g.heat = IF @ < HEAT_MAX THEN @ + 1 ELSE @]

\* if (fireCooldown > 0) fireCooldown--
SiegeCooldown(w) == [w EXCEPT !.g.fireCooldown = IF @ > 0 THEN @ - 1 ELSE @]

\* "BUTTON B: Melee Attack"
SiegeMelee(w) ==
    IF input_justPressed(w.g, "B") THEN player_melee_attack(w) ELSE w

\* "NORMAL SIEGE LOGIC" of update_siege up to the subsystem calls
SiegePlayer(w) ==
    SiegeMelee(PlayerFire(SiegeCooldown(camera_update(player_update(SiegeTimers(w))))))

\* TRUE when update_siege opens the upgrade menu: the player is within
\* TOWER_INTERACT_RANGE of the tower and C was just pressed
OpensMenu(w) ==
    LET player == w.ents[SLOT_PLAYER]
        dx == Abs(ToS16(ToS16(FP_INT(player.x)) - TOWER_X))
        dy == Abs(ToS16(ToS16(FP_INT(player.y)) - TOWER_Y))
    IN IsActive(player) /\ dx + dy < TOWER_INTERACT_RANGE
       /\ input_justPressed(w.g, "C")

\* static void update_siege(void)
update_siege(w) ==
    IF w.g.menuOpen THEN [w EXCEPT !.g = upgrade_menu_update(@)]
    ELSE IF OpensMenu(w) THEN [w EXCEPT !.g = upgrade_menu_open(@)]
    ELSE ContactCheck(SiegeSubsystems(SiegePlayer(w)))

\* the flags all four spawn functions of main.c and fenrir.c set
SpawnFlags == ENT_ACTIVE + ENT_VISIBLE + ENT_SOLID + ENT_FRIENDLY

\* player_spawn after entity_alloc (a is what the call returned)
PlayerFill(a) ==
    IF a.ret < 0 THEN a.w
    ELSE [a.w EXCEPT !.ents[a.ret] =
             [@ EXCEPT !.flags = SpawnFlags,
                       !.x = FP(SCREEN_WIDTH \div 2),
                       !.y = FP(SCREEN_HEIGHT \div 2),
                       !.hp = a.w.g.maxHP]]

\* static void player_spawn(void)
player_spawn(w) == PlayerFill(WorldAlloc(w, ENT_TYPE_PLAYER))

\* tower_spawn after entity_alloc; width and height are u8
TowerFill(a) ==
    IF a.ret < 0 THEN a.w
    ELSE [a.w EXCEPT !.ents[a.ret] =
             [@ EXCEPT !.flags = SpawnFlags,
                       !.x = FP(TOWER_X), !.y = FP(TOWER_Y),
                       !.width = ToU8(FP(50)), !.height = ToU8(FP(50)),
                       !.hp = 200]]

\* static void tower_spawn(void)
tower_spawn(w) == TowerFill(WorldAlloc(w, ENT_TYPE_TOWER_CENTER))

\* fenrir_spawn after entity_alloc
FenrirFill(a, x, y) ==
    IF a.ret < 0 THEN a.w
    ELSE [a.w EXCEPT !.ents[a.ret] =
             [@ EXCEPT !.flags = SpawnFlags,
                       !.x = x, !.y = y, !.hp = 100, !.frame = 0]]

\* void fenrir_spawn(s32 x, s32 y)
fenrir_spawn(w, x, y) == FenrirFill(WorldAlloc(w, ENT_TYPE_FENRIR), x, y)

\* the statics game_init resets: enemies_init, projectiles_init, fenrir_init,
\* memset of game and playerData with the fields set after it, director_init.
\* input, the upgrade menu and fireCooldown are not touched
GameInitStatics(g) ==
    director_init(
        [g EXCEPT
           !.spriteSlotFree = [s \in EnemySprites |-> TRUE],
           !.lastFreeSpriteHint = 0,
           !.projSpriteSlotFree = [s \in ProjSprites |-> TRUE],
           !.lastFreeProjSlot = 0,
           !.currentMode = FENRIR_MODE_FOLLOW,
           !.cachedTargetSlot = 255,
           !.searchTimer = 0,
           !.state = STATE_SIEGE, !.prevState = 0,
           !.siegeTimer = SIEGE_DURATION_FRAMES,
           !.heat = 0, !.gateOpen = 0, !.score = 0, !.playerXP = 0,
           !.maxHP = 100, !.currentHP = 100, !.facing = DIR_DOWN,
           !.invulnTimer = 0, !.dashTimer = 0, !.strafeLocked = 0,
           !.dashCooldown = 0])

\* variant: game_init without the entity_initPool call
GameInitResetKeepPool(w) == [w EXCEPT !.frame = 0, !.g = GameInitStatics(@)]

\* game_init up to the spawns: the init calls, entity_initPool and the memsets;
\* memset(&game, 0) also zeroes game.frameCount
GameInitReset(w) ==
    [w EXCEPT !.ents = entity_initPool.entities,
              !.cnt = entity_initPool.entityCount,
              !.frame = 0, !.g = GameInitStatics(@)]

\* "Spawn Fenrir near player" of game_init
GameInitFenrir(w) ==
    IF IsActive(w.ents[SLOT_PLAYER])
    THEN fenrir_spawn(w, w.ents[SLOT_PLAYER].x + FP(32),
                      w.ents[SLOT_PLAYER].y + FP(32))
    ELSE w

\* "Initialize camera to center on player" of game_init
GameInitCamera(w) ==
    IF IsActive(w.ents[SLOT_PLAYER])
    THEN [w EXCEPT
            !.g.cameraX = w.ents[SLOT_PLAYER].x - FP(SCREEN_WIDTH \div 2),
            !.g.cameraY = w.ents[SLOT_PLAYER].y - FP(SCREEN_HEIGHT \div 2)]
    ELSE w

\* void game_init(void)
game_init(w) ==
    GameInitCamera(GameInitFenrir(tower_spawn(player_spawn(GameInitReset(w)))))

\* the pause toggle of game_update
PauseToggle(g) ==
    IF ~input_justPressed(g, "START") THEN g
    ELSE IF g.state = STATE_PAUSED THEN [g EXCEPT !.state = g.prevState]
    ELSE IF g.state \in {STATE_SIEGE, STATE_EXPEDITION}
    THEN [g EXCEPT !.prevState = g.state, !.state = STATE_PAUSED]
    ELSE g

\* switch (game.state) of game_update; in STATE_PAUSED build_mode_update only
\* moves the build cursor as long as no wall is bought
StateMachine(w) ==
    CASE w.g.state = STATE_TITLE ->
            IF input_justPressed(w.g, "START")
            THEN [game_init(w) EXCEPT !.g.state = STATE_SIEGE] ELSE w
      [] w.g.state = STATE_SIEGE -> update_siege(w)
      [] w.g.state \in {STATE_EXPEDITION, STATE_TOWN} ->
            camera_update(player_update(w))
      [] w.g.state = STATE_GAMEOVER ->
            IF input_justPressed(w.g, "START")
            THEN [w EXCEPT !.g.state = STATE_TITLE] ELSE w
      [] OTHER -> w

\* game_update up to the pause toggle: frameCount++, input_update, spatial_clear
FrameStart(w, joypad) ==
    Emit([w EXCEPT !.frame = ToU32(@ + 1),
                   !.g = input_update(@, joypad),
                   !.first = spatial_clear.firstInCell,
                   !.next = spatial_clear.nextEntity],
         "clear", 255, 255)

\* void game_update(void) with the joypad state JOY_readJoypad returns
game_update(w, joypad) ==
    StateMachine([FrameStart(w, joypad) EXCEPT !.g = PauseToggle(@)])

\* "Spawn test enemy" of epoch_init
FirstEnemy(w) ==
    enemy_spawn_at(w, w.ents[SLOT_PLAYER].x + FP(60), w.ents[SLOT_PLAYER].y)

\* static void epoch_init(void): game_init, upgrade_menu_init and the first enemy
epoch_init(w) ==
    FirstEnemy([game_init(w) EXCEPT !.g = upgrade_menu_init(@)])

----------------------------------------------------------------------------
(* The deprecated entity manager (_deprecated/src/engines/common) and the   *)
(* deprecated split pool (_deprecated/src/entity.c). Both files name their  *)
(* functions like the engine above; the manager's functions carry the       *)
(* prefix em_ here and the split pool's the prefix split_. Of an entity     *)
(* only flags, type and data are kept: the other fields are written and     *)
(* never read by the pool code.                                             *)

ENT_FLAG_ACTIVE == 1
ENT_FLAG_VISIBLE == 2
ENT_FLAG_SOLID == 4
ENT_FLAG_FRIENDLY == 8
ENT_FLAG_ENEMY == 16
ENT_FLAG_PICKUP == 32

ENT_CAT_NONE == 0
ENT_CAT_PLAYER == 16
ENT_CAT_ENEMY == 32
ENT_CAT_PROJECTILE == 48
ENT_CAT_PICKUP == 64
ENT_CAT_EFFECT == 80
ENT_CAT_TRIGGER == 96

\* MAX_ENTITIES of _deprecated/src/entity.h
LEGACY_MAX_ENTITIES == 64
ENTITY_ID_NONE == 255
ENTITY_ID_PLAYER == 0

\* the value of a NULL entity_t pointer; other pointers are indices into
\* em->entities
NULL == -1

\* void entity_manager_clear(entity_manager_t* em)
entity_manager_clear(m) ==
    [m EXCEPT !.entities = [i \in 0 .. (m.capacity - 1) |->
                               [flags |-> 0, type |-> ENT_CAT_NONE]],
              !.count = 0,
              !.first_free = 0]

\* void entity_manager_init(entity_manager_t* em, entity_t* buffer, u16 capacity):
\* whatever the buffer held is cleared
entity_manager_init(capacity) ==
    entity_manager_clear([entities |-> <<>>, capacity |-> capacity,
                          count |-> 0, first_free |-> 0])

\* entity_t* entity_spawn(entity_manager_t* em, u8 type, fixed8_8 x, fixed8_8 y):
\* the manager after the call and the pointer returned
em_entity_spawn(m, type) ==
    LET found == {i \in m.first_free .. (m.capacity - 1) :
                     ~HasFlag(m.entities[i].flags, ENT_FLAG_ACTIVE)}
    IN IF found = {} THEN [em |-> m, ret |-> NULL]
       ELSE \* the first hit of the upward scan
            LET i == CHOOSE i \in found : \A j \in found : i <= j
            IN [em |-> [m EXCEPT !.entities[i] =
                                     [flags |-> ENT_FLAG_ACTIVE + ENT_FLAG_VISIBLE,
                                      type |-> type],
                                 !.count = ToU16(@ + 1),
                                 !.first_free = ToU16(i + 1)],
                ret |-> i]

\* void entity_despawn(entity_manager_t* em, entity_t* ent)
em_entity_despawn(m, ent) ==
    IF ent = NULL THEN m
    ELSE IF ~HasFlag(m.entities[ent].flags, ENT_FLAG_ACTIVE) THEN m
    ELSE [m EXCEPT !.entities[ent] = [flags |-> 0, type |-> ENT_CAT_NONE],
                   !.count = ToU16(@ - 1),
                   !.first_free = IF ent < @ THEN ent ELSE @]

\* the zeroed entity_manager_t before entity_manager_init
ZeroManager == [entities |-> <<>>, capacity |-> 0, count |-> 0, first_free |-> 0]

\* HAL_MAX_ENEMIES, HAL_MAX_PROJECTILES, HAL_MAX_PICKUPS and HAL_MAX_EFFECTS
\* of the tier entity.c is compiled for: "minimal" is HAL_TIER_MINIMAL (NES)
\* and the fallback of entity.c, "standard" is HAL_TIER_STANDARD (Genesis)
Limits(tier) ==
    IF tier = "standard"
    THEN [enemy |-> 48, projectile |-> 48, pickup |-> 48, effect |-> 24]
    ELSE [enemy |-> 12, projectile |-> 16, pickup |-> 16, effect |-> 8]

LegacySlots == 0 .. (LEGACY_MAX_ENTITIES - 1)

\* the statics of entity.c as the loader leaves them
ZeroSplit ==
    [entity_pool |-> [i \in LegacySlots |-> [flags |-> 0, type |-> 0, data |-> 0]],
     free_list_head |-> 0, active_count |-> 0,
     enemy_count |-> 0, projectile_count |-> 0, pickup_count |-> 0,
     effect_count |-> 0, tier |-> "minimal"]

\* void entity_init_all(void) in a build for tier
entity_init_all(tier) ==
    [entity_pool |->
        [i \in LegacySlots |->
            [flags |-> 0,
             type |-> IF i = ENTITY_ID_PLAYER THEN ENT_TYPE_PLAYER ELSE ENT_CAT_NONE,
             data |-> IF i = 0 THEN 0
                      ELSE IF i = LEGACY_MAX_ENTITIES - 1 THEN ENTITY_ID_NONE
                      ELSE i + 1]],
     free_list_head |-> 1, active_count |-> 0,
     enemy_count |-> 0, projectile_count |-> 0, pickup_count |-> 0,
     effect_count |-> 0, tier |-> tier]

\* static bool_t category_can_spawn(u8 category)
category_can_spawn(s, category) ==
    CASE category = ENT_CAT_ENEMY -> s.enemy_count < Limits(s.tier).enemy
      [] category = ENT_CAT_PROJECTILE -> s.projectile_count < Limits(s.tier).projectile
      [] category = ENT_CAT_PICKUP -> s.pickup_count < Limits(s.tier).pickup
      [] category = ENT_CAT_EFFECT -> s.effect_count < Limits(s.tier).effect
      [] OTHER -> TRUE

\* static void category_increment(u8 category)
category_increment(s, category) ==
    CASE category = ENT_CAT_ENEMY -> [s EXCEPT !.enemy_count = ToU8(@ + 1)]
      [] category = ENT_CAT_PROJECTILE -> [s EXCEPT !.projectile_count = ToU8(@ + 1)]
      [] category = ENT_CAT_PICKUP -> [s EXCEPT !.pickup_count = ToU8(@ + 1)]
      [] category = ENT_CAT_EFFECT -> [s EXCEPT !.effect_count = ToU8(@ + 1)]
      [] OTHER -> s

\* static void category_decrement(u8 category)
category_decrement(s, category) ==
    CASE category = ENT_CAT_ENEMY ->
            [s EXCEPT !.enemy_count = IF @ > 0 THEN @ - 1 ELSE @]
      [] category = ENT_CAT_PROJECTILE ->
            [s EXCEPT !.projectile_count = IF @ > 0 THEN @ - 1 ELSE @]
      [] category = ENT_CAT_PICKUP ->
            [s EXCEPT !.pickup_count = IF @ > 0 THEN @ - 1 ELSE @]
      [] category = ENT_CAT_EFFECT ->
            [s EXCEPT !.effect_count = IF @ > 0 THEN @ - 1 ELSE @]
      [] OTHER -> s

\* entity_id_t entity_alloc(void) of the split pool: the statics after the
\* call and the id returned
split_entity_alloc(s) ==
    IF s.free_list_head = ENTITY_ID_NONE THEN [split |-> s, ret |-> ENTITY_ID_NONE]
    ELSE LET id == s.free_list_head
         IN [split |-> [s EXCEPT !.free_list_head = ToU8(s.entity_pool[id].data),
                                 !.entity_pool[id] =
                                     [flags |-> 0, type |-> ENT_CAT_NONE, data |-> 0],
                                 !.active_count = ToU8(@ + 1)],
             ret |-> id]

\* void entity_free(entity_id_t id) of the split pool
split_entity_free(s, id) ==
    IF id = ENTITY_ID_PLAYER \/ id >= LEGACY_MAX_ENTITIES THEN s
    ELSE IF ~HasFlag(s.entity_pool[id].flags, ENT_FLAG_ACTIVE) THEN s
    ELSE LET counted == category_decrement(s, (s.entity_pool[id].type \div 16) * 16)
         IN [counted EXCEPT
               !.entity_pool[id] = [flags |-> 0, type |-> ENT_CAT_NONE,
                                    data |-> s.free_list_head],
               !.free_list_head = id,
               !.active_count = IF @ > 0 THEN @ - 1 ELSE @]

\* the flags entity_spawn gives an entity of category
SpawnedFlags(category) ==
    ENT_FLAG_ACTIVE + ENT_FLAG_VISIBLE
    + (CASE category = ENT_CAT_PLAYER -> ENT_FLAG_SOLID + ENT_FLAG_FRIENDLY
         [] category = ENT_CAT_ENEMY -> ENT_FLAG_SOLID + ENT_FLAG_ENEMY
         [] category = ENT_CAT_PROJECTILE -> ENT_FLAG_SOLID
         [] category = ENT_CAT_PICKUP -> ENT_FLAG_PICKUP
         [] OTHER -> 0)

\* entity_id_t entity_spawn(u8 type, fixed8_8 x, fixed8_8 y) of the split pool
split_entity_spawn(s, type) ==
    LET category == (type \div 16) * 16
        a == split_entity_alloc(s)
    IN IF ~category_can_spawn(s, category) THEN [split |-> s, ret |-> ENTITY_ID_NONE]
       ELSE IF a.ret = ENTITY_ID_NONE THEN [split |-> s, ret |-> ENTITY_ID_NONE]
       ELSE [split |-> [category_increment(a.split, category) EXCEPT
                           !.entity_pool[a.ret] =
                               [flags |-> SpawnedFlags(category), type |-> type,
                                data |-> 0]],
             ret |-> a.ret]

\* the deprecated modules before their init calls
LegacyBoot ==
    /\ em = ZeroManager
    /\ split = ZeroSplit
----------------------------------------------------------------------------
(* Pool specification: any interleaving of entity_initPool, entity_alloc,  *)
(* entity_free and field writes by the owners of live entities.            *)

\* most slots that may hold anything but zeroes at one time
MaxUsed == 2

\* types handed to entity_alloc: both variants of the player range, one enemy,
\* both projectile masks, tower, pickup and an NPC (the final else branch)
AllocTypes ==
    {ENT_TYPE_PLAYER, ENT_TYPE_FENRIR, ENT_TYPE_ENEMY_BASIC, ENT_TYPE_PROJ_PLAYER,
     ENT_TYPE_PROJ_ENEMY, ENT_TYPE_TOWER_CENTER, ENT_TYPE_PICKUP_XP, ENT_TYPE_NPC}

\* arguments handed to entity_free: the slots the bounded pool can have handed
\* out, the last slot (never handed out here), MAX_ENTITIES and 0xFF
FreeArgs ==
    {s \in Slots : \E type \in AllocTypes :
                      s >= AllocStart(type) /\ s < AllocStart(type) + MaxUsed
                      /\ s < AllocEnd(type)}
    \cup {MAX_ENTITIES - 1, MAX_ENTITIES, 255}

UsedSlots(ents) == {s \in Slots : ents[s] # ZeroEntity}

\* what the owner of a live entity writes while it is alive: a velocity
\* (AI_Chase), the flash timer (enemy_damage) and the sprite index (spawn)
OwnerWrite(e) == [e EXCEPT !.vx = 128, !.vy = 128, !.timer = 4, !.data = 255]

PoolInit ==
    /\ entities = entity_initPool.entities
    /\ entityCount = entity_initPool.entityCount
    /\ ret = -2
    /\ LegacyBoot
    /\ log = <<>>
    /\ freed = FALSE
    /\ lastFreed = -1
    /\ GridBoot
    /\ FrameBoot

PoolInitPool ==
    /\ entities' = entity_initPool.entities
    /\ entityCount' = entity_initPool.entityCount
    /\ ret' = -2
    /\ UNCHANGED <<legacyVars, log, freed, lastFreed, gridVars, frameVars>>

PoolAlloc(type) ==
    LET r == entity_alloc(entities, entityCount, type)
    IN /\ \/ r.ret = -1
          \/ r.ret \in UsedSlots(entities)
          \/ Cardinality(UsedSlots(entities)) < MaxUsed
       /\ ret' = r.ret
       /\ entityCount' = r.entityCount
       /\ entities' = r.entities
       /\ UNCHANGED <<legacyVars, log, freed, lastFreed, gridVars, frameVars>>

PoolFree(slot) ==
    LET r == entity_free(entities, entityCount, slot)
    IN /\ entities' = r.entities
       /\ entityCount' = r.entityCount
       /\ ret' = -2
       /\ UNCHANGED <<legacyVars, log, freed, lastFreed, gridVars, frameVars>>

PoolWrite(slot) ==
    /\ IsActive(entities[slot])
    /\ entities' = [entities EXCEPT ![slot] = OwnerWrite(entities[slot])]
    /\ ret' = -2
    /\ UNCHANGED <<legacyVars, entityCount, log, freed, lastFreed, gridVars, frameVars>>

PoolNext ==
    \/ PoolInitPool
    \/ \E type \in AllocTypes : PoolAlloc(type)
    \/ \E slot \in FreeArgs : PoolFree(slot)
    \/ \E slot \in Slots : PoolWrite(slot)

SpecPool == PoolInit /\ [][PoolNext]_vars

\* C1: entity_alloc never returns a slot whose ENT_ACTIVE flag was set just
\* before the call, so a live entity is never handed out a second time.
C1_AllocReturnsInactive ==
    [][ret' \in Slots =>
          /\ ~IsActive(entities[ret'])
          /\ IsActive(entities'[ret'])
          /\ \A s \in Slots : IsActive(entities[s]) => entities'[s] = entities[s]]_vars

\* an entity_alloc has just returned slot 1 while slot 0 stays live
C1_Witness ==
    /\ ret = SLOT_FENRIR
    /\ IsActive(entities[SLOT_PLAYER])
    /\ IsActive(entities[SLOT_FENRIR])

\* C9: entity_free called on the reserved player slot leaves the player live.
C9_FreeKeepsPlayer ==
    [][(PoolFree(SLOT_PLAYER) /\ IsActive(entities[SLOT_PLAYER]))
          => IsActive(entities'[SLOT_PLAYER])]_vars

\* the hitbox the categories are given: 16 player/companion, 24 enemy,
\* 12 projectile, 64 tower, 16 pickup and everything else
C10Size(type) ==
    IF type \div 16 = 2 THEN 24
    ELSE IF type \div 16 = 3 THEN 12
    ELSE IF type \div 16 = 4 THEN 64
    ELSE 16

\* C10: after a successful entity_alloc the slot is active with the default
\* width and height, a non-zero-category collision mask, and data, timer,
\* vx and vy all zero.
C10_AllocInitialisesSlot ==
    [][ret' \in Slots =>
          LET e == entities'[ret']
          IN /\ IsActive(e)
             /\ e.width = C10Size(e.type)
             /\ e.height = C10Size(e.type)
             /\ e.collMask = DefaultMask(e.type)
             /\ e.data = 0
             /\ e.timer = 0
             /\ e.vx = 0
             /\ e.vy = 0]_vars

----------------------------------------------------------------------------
(* Fill specification: one category range is filled from the empty pool,   *)
(* with frees in between; the other ranges stay empty.                     *)

\* entity_alloc calls recorded beyond the capacity of the range
MaxExtra == 1

\* most freed-and-not-yet-reused slots at one time
MaxHoles == 1

\* one type per category range, and both variants of the two-slot range
FillTypes ==
    {ENT_TYPE_PLAYER, ENT_TYPE_FENRIR, ENT_TYPE_ENEMY_BASIC, ENT_TYPE_PROJ_PLAYER,
     ENT_TYPE_TOWER_CENTER}

RangeOf(type) == AllocStart(type) .. (AllocEnd(type) - 1)

Holes(ents) == {s \in UsedSlots(ents) : ~IsActive(ents[s])}

FillInitPool ==
    /\ entities' = entity_initPool.entities
    /\ entityCount' = entity_initPool.entityCount
    /\ ret' = -2
    /\ log' = <<>>
    /\ freed' = FALSE
    /\ lastFreed' = -1
    /\ UNCHANGED <<legacyVars, gridVars, frameVars>>

FillAlloc(type) ==
    LET r == entity_alloc(entities, entityCount, type)
    IN /\ UsedSlots(entities) \subseteq RangeOf(type)
       /\ freed \/ Len(log) < Cardinality(RangeOf(type)) + MaxExtra
       /\ ret' = r.ret
       /\ entityCount' = r.entityCount
       /\ entities' = r.entities
       /\ log' = IF freed THEN log ELSE Append(log, [type |-> type, ret |-> r.ret])
       /\ lastFreed' = IF r.ret = lastFreed THEN lastFreed ELSE -1
       /\ UNCHANGED <<legacyVars, freed, gridVars, frameVars>>

FillFree(slot) ==
    LET r == entity_free(entities, entityCount, slot)
    IN /\ IsActive(entities[slot])
       /\ Cardinality(Holes(entities)) < MaxHoles
       /\ entities' = r.entities
       /\ entityCount' = r.entityCount
       /\ log' = <<>>
       /\ freed' = TRUE
       /\ lastFreed' = slot
       /\ ret' = -2
       /\ UNCHANGED <<legacyVars, gridVars, frameVars>>

FillNext ==
    \/ FillInitPool
    \/ \E type \in FillTypes : FillAlloc(type)
    \/ \E slot \in Slots : FillFree(slot)

SpecFill == PoolInit /\ [][FillNext]_vars

\* the range of a category: player/companion [0,2), enemies [2,26),
\* projectiles [26,58), everything else [58,64)
ClaimRange(type) ==
    IF type \div 16 = 1 THEN 0 .. 1
    ELSE IF type \div 16 = 2 THEN 2 .. 25
    ELSE IF type \div 16 = 3 THEN 26 .. 57
    ELSE 58 .. 63

\* live entities whose type belongs to the category of the given type
LiveOfCategory(type) ==
    {s \in Slots : IsActive(entities[s]) /\ ClaimRange(entities[s].type) = ClaimRange(type)}

\* C2: a range of N slots never holds more than N live entities of its
\* category; from the empty pool N calls for the category return N distinct
\* slots of the range and call N+1 returns -1, the other ranges being free.
C2_RangeCapacity ==
    /\ \A type \in FillTypes :
          /\ LiveOfCategory(type) \subseteq ClaimRange(type)
          /\ Cardinality(LiveOfCategory(type)) <= Cardinality(ClaimRange(type))
    /\ ~freed =>
          \A i \in 1 .. Len(log) :
              LET N == Cardinality(ClaimRange(log[i].type))
              IN /\ i <= N => /\ log[i].ret \in ClaimRange(log[i].type)
                              /\ \A j \in 1 .. (i - 1) : log[j].ret # log[i].ret
                 /\ i > N => log[i].ret = -1

\* call 25 for an enemy has returned -1 after 24 successes from the empty
\* pool, with every slot outside the enemy range inactive
C2_Witness ==
    /\ ~freed
    /\ Len(log) = 25
    /\ log[1].type = ENT_TYPE_ENEMY_BASIC
    /\ log[24].ret = 25
    /\ log[25].ret = -1
    /\ \A s \in Slots \ (2 .. 25) : ~IsActive(entities[s])

\* C3: a successful entity_alloc returns the lowest inactive slot of the
\* range; with one slot of a filled range freed, the next call returns it.
C3_FirstFit ==
    [][ret' \in Slots =>
          LET range == ClaimRange(entities'[ret'].type)
          IN /\ ret' \in range
             /\ ~IsActive(entities[ret'])
             /\ \A s \in range : s < ret' => IsActive(entities[s])
             /\ (/\ lastFreed \in range
                 /\ \A s \in range \ {lastFreed} : IsActive(entities[s]))
                     => ret' = lastFreed]_vars

\* projectile slot 40, freed from the middle of the full range, has just been
\* handed out again
C3_Witness ==
    /\ freed
    /\ lastFreed = 40
    /\ ret = 40
    /\ \A s \in 26 .. 57 : IsActive(entities[s])

----------------------------------------------------------------------------
(* Grid specification: a source, a target and possibly a third entity are  *)
(* placed in the pool; the grid is cleared, filled and queried.            *)

\* highest value of the frame counter
MaxFrames == 1

\* pixel position of the source: inside cell (1, 1)
BaseX == 96
BaseY == 96

SourceTypes == {ENT_TYPE_PLAYER, ENT_TYPE_ENEMY_FAST, ENT_TYPE_PROJ_PLAYER, ENT_TYPE_TOWER_BASIC}

TargetTypes == {ENT_TYPE_FENRIR, ENT_TYPE_ENEMY_BASIC, ENT_TYPE_PROJ_ENEMY, ENT_TYPE_TOWER_CENTER}

\* pixel offsets of the target from the source: across the cell border to the
\* left (-40), close (8), and far inside the same cell (30)
OffsetsX == {-40, 8, 30}
OffsetsY == {0, 30}

\* a third entity: none, an enemy spawned before the others outside the map
\* (clamped into cell (0, 13)), an enemy spawned last in the cell of the
\* source, or an enemy spawned first on top of the source (next to an enemy
\* as target only)
Bystanders == {"none", "outside", "near", "stack"}

QueryMasks == {COLL_ENEMY, COLL_TOWER, COLL_FENRIR + COLL_PROJ_ENY}

\* entity_alloc followed by the position write of the spawn functions
Place(pool, type, px, py) ==
    LET r == entity_alloc(pool.entities, pool.entityCount, type)
    IN IF r.ret = -1
       THEN pool
       ELSE [entities |-> [r.entities EXCEPT ![r.ret].x = FP(px), ![r.ret].y = FP(py)],
             entityCount |-> r.entityCount]

Population(srcType, tgtType, dx, dy, third) ==
    LET p0 == IF third = "outside"
              THEN Place(entity_initPool, ENT_TYPE_ENEMY_BASIC, -10, 900)
              ELSE IF third = "stack"
              THEN Place(entity_initPool, ENT_TYPE_ENEMY_BASIC, BaseX + 2, BaseY + 1)
              ELSE entity_initPool
        p1 == Place(p0, srcType, BaseX, BaseY)
        p2 == Place(p1, tgtType, BaseX + dx, BaseY + dy)
    IN IF third = "near"
       THEN Place(p2, ENT_TYPE_ENEMY_BASIC, BaseX - 26, BaseY + 29)
       ELSE p2

ActiveSlots(ents) == {s \in Slots : IsActive(ents[s])}

\* slots inserted since the latest spatial_clear
InsertedSlots == {gridLog[i].slot : i \in {j \in 1 .. Len(gridLog) : gridLog[j].op = "insert"}}

GridInit ==
    /\ \E srcType \in SourceTypes, tgtType \in TargetTypes,
          dx \in OffsetsX, dy \in OffsetsY, third \in Bystanders :
          LET pool == Population(srcType, tgtType, dx, dy, third)
          IN /\ third = "stack" => tgtType = ENT_TYPE_ENEMY_BASIC
             /\ entities = pool.entities
             /\ entityCount = pool.entityCount
    /\ ret = -2
    /\ LegacyBoot
    /\ log = <<>>
    /\ freed = FALSE
    /\ lastFreed = -1
    /\ GridBoot
    /\ FrameBoot

GridClear ==
    /\ firstInCell' = spatial_clear.firstInCell
    /\ nextEntity' = spatial_clear.nextEntity
    /\ gridLog' = <<[op |-> "clear", slot |-> SPATIAL_NULL, x |-> 0, y |-> 0]>>
    /\ query' = <<>>
    /\ UNCHANGED <<legacyVars, entities, entityCount, ret, log, freed, lastFreed, frameCount,
                    frameVars>>

\* spatial_insert(i, e->x, e->y) for a live entity not yet inserted
GridInsert(slot) ==
    LET e == entities[slot]
        g == spatial_insert(firstInCell, nextEntity, slot, e.x, e.y)
    IN /\ gridLog # <<>>
       /\ IsActive(e)
       /\ slot \notin InsertedSlots
       /\ firstInCell' = g.firstInCell
       /\ nextEntity' = g.nextEntity
       /\ gridLog' = Append(gridLog, [op |-> "insert", slot |-> slot, x |-> e.x, y |-> e.y])
       /\ query' = <<>>
       /\ UNCHANGED <<legacyVars, entities, entityCount, ret, log, freed, lastFreed, frameCount,
                    frameVars>>

\* spatial_checkCollisionThreeGate(source, mask, game.frameCount) once every
\* live entity is in the grid
GridQuery(sourceSlot, targetMask) ==
    /\ gridLog # <<>>
    /\ IsActive(entities[sourceSlot])
    /\ InsertedSlots = ActiveSlots(entities)
    /\ query' = [source |-> sourceSlot, mask |-> targetMask, frame |-> frameCount,
                 ret |-> spatial_checkCollisionThreeGate(entities, firstInCell, nextEntity,
                                                         sourceSlot, targetMask, frameCount)]
    /\ UNCHANGED <<legacyVars, entities, entityCount, ret, log, freed, lastFreed,
                   firstInCell, nextEntity, frameCount, gridLog, frameVars>>

\* game.frameCount++
GridTick ==
    /\ frameCount < MaxFrames
    /\ frameCount' = frameCount + 1
    /\ query' = <<>>
    /\ UNCHANGED <<legacyVars, entities, entityCount, ret, log, freed, lastFreed,
                   firstInCell, nextEntity, gridLog, frameVars>>

GridNext ==
    \/ GridClear
    \/ \E slot \in Slots : GridInsert(slot)
    \/ \E sourceSlot \in Slots, targetMask \in QueryMasks : GridQuery(sourceSlot, targetMask)
    \/ GridTick

SpecGrid == GridInit /\ [][GridNext]_vars

\* cells whose list is not empty
Occupied == {c \in Cells : firstInCell[c] # SPATIAL_NULL}

\* how often a slot occurs in the list of a cell
Occurrences(cell, slot) ==
    LET list == CellList(firstInCell, nextEntity, cell)
    IN Cardinality({k \in 1 .. Len(list) : list[k] = slot})

\* C4: for every source and target carrying sizes the pool assigns, a pair
\* that passes the Gate 3 box test also passes the Gate 2 Manhattan test.
C4_Gate3ImpliesGate2 ==
    query # <<>> =>
        \A t \in ActiveSlots(entities) \ {query.source} :
            Gate3(entities[query.source], entities[t])
                => Gate2(entities[query.source], entities[t])

\* C5: after spatial_clear and one spatial_insert per live entity, every
\* inserted slot is met exactly once, in the list of the cell computed from
\* the position it was inserted with, and no list holds a slot of another cell.
C5_GridComplete ==
    gridLog # <<>> =>
        /\ \A i \in 2 .. Len(gridLog) :
              LET e == gridLog[i]
              IN /\ {c \in Occupied : Occurrences(c, e.slot) > 0}
                        = {spatial_getCellIndex(e.x, e.y)}
                 /\ Occurrences(spatial_getCellIndex(e.x, e.y), e.slot) = 1
        /\ \A c \in Occupied :
              LET list == CellList(firstInCell, nextEntity, c)
              IN \A k \in 1 .. Len(list) :
                    /\ list[k] \in InsertedSlots
                    /\ spatial_getCellIndex(entities[list[k]].x, entities[list[k]].y) = c

\* all three live entities are inserted, one cell holds the three of them
C5_Witness ==
    /\ gridLog # <<>>
    /\ Cardinality(ActiveSlots(entities)) = 3
    /\ InsertedSlots = ActiveSlots(entities)
    /\ \E c \in Occupied : Len(CellList(firstInCell, nextEntity, c)) = 3

\* target t is the one live entity in the cell of source s that carries a bit
\* of the mask and overlaps s
SoleOverlap(s, t, mask) ==
    LET Overlaps(u) ==
            /\ spatial_getCellIndex(entities[u].x, entities[u].y)
                  = spatial_getCellIndex(entities[s].x, entities[s].y)
            /\ Gate1(entities[u], mask)
            /\ Gate3(entities[s], entities[u])
    IN /\ Overlaps(t)
       /\ \A u \in ActiveSlots(entities) \ {s, t} : ~Overlaps(u)

\* C6: a target overlapping the source in the same cell is reported only on
\* frames whose parity equals the parity of its slot, and on at least one of
\* any two consecutive frame counter values.
C6_StaggeredDetection ==
    query # <<>> =>
        \A t \in ActiveSlots(entities) \ {query.source} :
            SoleOverlap(query.source, t, query.mask) =>
                /\ query.ret = t => query.frame % 2 = t % 2
                /\ \/ query.ret = t
                   \/ spatial_checkCollisionThreeGate(entities, firstInCell, nextEntity,
                          query.source, query.mask, query.frame + 1) = t

\* the part of C6 that does not depend on Gate 2: a reported slot has the
\* parity of the frame counter
C6_ParityOnly ==
    (query # <<>> /\ query.ret \in Slots) => query.frame % 2 = query.ret % 2

\* C4 restricted to targets at most 32 pixels wide and high
C4_SmallTargets ==
    query # <<>> =>
        \A t \in ActiveSlots(entities) \ {query.source} :
            (entities[t].width <= 32 /\ entities[t].height <= 32
             /\ Gate3(entities[query.source], entities[t]))
                => Gate2(entities[query.source], entities[t])

----------------------------------------------------------------------------
(* Frame specification: the program from epoch_init on, one game_update    *)
(* call per step, for every joypad state in Joypads and every run of       *)
(* random() values in RandomRuns.                                          *)

\* game_update calls of one run
MaxSteps == 4

\* the joypad states read in a frame
Joypads == {{}, {"A"}, {"B"}, {"C"}, {"START"}, {"RIGHT", "A"}}

\* the values the random() calls of one frame return, in call order (taken
\* round again when a frame makes more calls)
RandomRuns == {<<0, 0, 65535, 0, 0>>, <<1, 300, 0, 32768, 32768>>}

\* the world before the first game_update: zeroed statics
BootWorld ==
    [ents |-> entity_initPool.entities, cnt |-> entity_initPool.entityCount,
     first |-> [c \in Cells |-> 0], next |-> [s \in Slots |-> 0],
     frame |-> 0, g |-> ZeroGame, ev |-> <<>>, rnd |-> <<0>>]

\* a later moment of the siege: the first enemy has walked to (px, py) and a
\* second one stands at (qx, qy) with hp left
Skirmish(px, py, qx, qy, hp) ==
    LET w == epoch_init(BootWorld)
        walked == [w EXCEPT !.ents[SLOT_ENEMIES_START].x = FP(px),
                            !.ents[SLOT_ENEMIES_START].y = FP(py)]
        joined == enemy_spawn_at(walked, FP(qx), FP(qy))
    IN [joined EXCEPT !.ents[SLOT_ENEMIES_START + 1].hp = hp]

\* the worlds a run starts from: the one epoch_init leaves, and skirmishes
\* next to the player, who stands at (160, 112)
StartWorlds ==
    {epoch_init(BootWorld)}
    \cup {Skirmish(150, 118, 172, 112, hp) : hp \in {10, 30}}

\* the variables of a world
IsWorld(w) ==
    /\ entities = w.ents
    /\ entityCount = w.cnt
    /\ firstInCell = w.first
    /\ nextEntity = w.next
    /\ frameCount = w.frame
    /\ game = w.g
    /\ events = w.ev

World(rnd) ==
    [ents |-> entities, cnt |-> entityCount, first |-> firstInCell,
     next |-> nextEntity, frame |-> frameCount, g |-> game, ev |-> <<>>,
     rnd |-> rnd]

FrameInit ==
    /\ \E w \in StartWorlds : IsWorld([w EXCEPT !.ev = <<>>])
    /\ ret = -2
    /\ LegacyBoot
    /\ log = <<>>
    /\ freed = FALSE
    /\ lastFreed = -1
    /\ gridLog = <<>>
    /\ query = <<>>

\* TRUE when build mode would buy a wall this frame (A pressed while paused
\* with 10 XP): the collision map is outside the model
BuysWall(joypad) ==
    LET g == PauseToggle(input_update(game, joypad))
    IN g.state = STATE_PAUSED /\ input_justPressed(g, "A") /\ g.playerXP >= 10

\* one iteration of the while loop of SYSTEM_run: game_update
FrameUpdate(joypad, rnd) ==
    /\ frameCount < MaxSteps
    /\ ~BuysWall(joypad)
    /\ \E w \in {game_update(World(rnd), joypad)} :
          /\ entities' = w.ents
          /\ entityCount' = w.cnt
          /\ firstInCell' = w.first
          /\ nextEntity' = w.next
          /\ frameCount' = w.frame
          /\ game' = w.g
          /\ events' = w.ev
    /\ UNCHANGED <<legacyVars, ret, log, freed, lastFreed, gridLog, query>>

FrameNext == \E joypad \in Joypads, rnd \in RandomRuns : FrameUpdate(joypad, rnd)

SpecFrame == FrameInit /\ [][FrameNext]_vars

----------------------------------------------------------------------------
(* Claims on the frame loop                                                *)

\* the positions of the calls of one kind in the latest game_update
Calls(op) == {i \in 1 .. Len(events) : events[i].op = op}

\* the grid reads of the latest game_update: collision queries, the start of
\* the contact check and its visits
GridReads == Calls("query") \cup Calls("contact") \cup Calls("walk")

\* C7: in every game_update call (the siege update included) spatial_clear
\* runs exactly once and before every spatial_insert of the frame, and every
\* spatial_insert comes before the first collision query and before the
\* contact check's grid walk
C7_ClearThenInsertThenQuery ==
    events # <<>> =>
        /\ Cardinality(Calls("clear")) = 1
        /\ \A i \in Calls("insert") : \A c \in Calls("clear") : c < i
        /\ \A i \in Calls("insert") : \A r \in GridReads : i < r

\* a siege frame with a clear, two inserts, a query and a contact walk
C7_Witness ==
    /\ game.state = STATE_SIEGE
    /\ Cardinality(Calls("insert")) >= 2
    /\ Calls("query") # {}
    /\ Calls("walk") # {}
    /\ Calls("clear") = {1}

\* the entity_free calls of the latest game_update that freed an enemy hit by
\* a collision query: enemy_damage ran on the slot the query returned (only
\* the pickup allocation of the death branch lies between the two)
CollisionFrees ==
    {i \in Calls("free") :
        /\ events[i].hit = 1
        /\ events[i].slot \in SLOT_ENEMIES_START .. SLOT_ENEMIES_END
        /\ \E q \in Calls("query") :
              /\ q < i
              /\ events[q].hit = events[i].slot
              /\ \A k \in (q + 1) .. (i - 1) : events[k].op = "alloc"}

\* the cell a slot was inserted into in the latest game_update
InsertCell(slot) ==
    events[CHOOSE k \in Calls("insert") : events[k].slot = slot].hit

\* C8: after an enemy has been freed through a collision, no later query of
\* the frame returns its slot and no later contact visit of its slot damages
\* the player, the slot is still linked in the list of its cell, and every
\* slot inserted into that cell in the frame is still on that list
C8_FreedSlotSkipped ==
    \A i \in CollisionFrees :
        LET s == events[i].slot
            cell == InsertCell(s)
            list == CellList(firstInCell, nextEntity, cell)
            onList == {list[k] : k \in 1 .. Len(list)}
        IN /\ \A j \in (i + 1) .. Len(events) :
                 /\ events[j].op = "query" => events[j].hit # s
                 /\ (events[j].op = "walk" /\ events[j].slot = s) => events[j].hit = 0
           /\ s \in onList
           /\ \A k \in Calls("insert") : events[k].hit = cell => events[k].slot \in onList

\* an enemy is freed through a projectile hit, the contact walk of the same
\* frame passes its slot without damage and goes on to a live enemy behind it
\* on the same list
C8_Witness ==
    \E i \in CollisionFrees : \E j, k \in Calls("walk") :
        /\ i < j
        /\ j < k
        /\ events[j].slot = events[i].slot
        /\ events[j].hit = 0
        /\ events[k].hit = 1
        /\ InsertCell(events[k].slot) = InsertCell(events[i].slot)
        /\ ~IsActive(entities[events[i].slot])

----------------------------------------------------------------------------
(* Releasing a slot twice (engine/entity.c:97-104), under SpecPool         *)

\* C11: for every slot argument and every pool state, a second
\* entity_free(slot) right after the first leaves the entity array and
\* entityCount as the first call left them.
C11_FreeIdempotent ==
    \A slot \in FreeArgs :
        \E once \in {entity_free(entities, entityCount, slot)} :
            entity_free(once.entities, once.entityCount, slot) = once

\* a live slot is about to be released while another entity stays counted, so
\* that a second decrement of entityCount would show
C11_Witness ==
    /\ entityCount >= 2
    /\ \E slot \in FreeArgs \cap Slots :
          /\ IsActive(entities[slot])
          /\ entity_free(entities, entityCount, slot).entityCount = entityCount - 1

----------------------------------------------------------------------------
(* Cell index specification: spatial_getCellIndex (engine/spatial.h:48-70) *)
(* is called with positions drawn from the whole s32 range.                *)

\* pixel coordinates handed in: the two ends of the s32 range, both sides of
\* the s16 range, both sides of the map and of its first and last cell, and
\* pixels between the map edge and the grid edge
PixelsX == {-8388608, -32769, -32768, -1, 0, 63, 64, 1279, 1280, 2047, 32767, 32768, 8388607}
PixelsY == {-8388608, -32768, -1, 0, 64, 895, 896, 1023, 32767, 32768, 8388607}

\* sub-pixel parts of a position
SubPixels == {0, 255}

CellInit ==
    /\ entities = entity_initPool.entities
    /\ entityCount = entity_initPool.entityCount
    /\ ret = -2
    /\ LegacyBoot
    /\ log = <<>>
    /\ freed = FALSE
    /\ lastFreed = -1
    /\ GridBoot
    /\ FrameBoot

\* spatial_getCellIndex(x, y): query keeps the arguments and the value returned
CellIndex(x, y) ==
    /\ query' = [x |-> x, y |-> y, ret |-> spatial_getCellIndex(x, y)]
    /\ UNCHANGED <<legacyVars, entities, entityCount, ret, log, freed, lastFreed,
                   firstInCell, nextEntity, frameCount, gridLog, frameVars>>

CellNext ==
    \E px \in PixelsX, py \in PixelsY, fx \in SubPixels, fy \in SubPixels :
        CellIndex(FP(px) + fx, FP(py) + fy)

SpecCell == CellInit /\ [][CellNext]_vars

\* C12: for every s32 position, negative and far beyond the map included,
\* spatial_getCellIndex returns one value per position and that value is
\* below SPATIAL_GRID_CELLS, so the firstInCell element spatial_insert writes
\* lies inside the grid.
C12_CellIndexInGrid ==
    query # <<>> =>
        /\ query.ret \in Cells
        /\ query.ret = spatial_getCellIndex(query.x, query.y)
        /\ spatial_insert(firstInCell, nextEntity, SLOT_ENEMIES_START, query.x, query.y)
               .firstInCell[query.ret] = SLOT_ENEMIES_START

\* a position above the map and beyond the s16 pixel range to the right
C12_Witness ==
    /\ query # <<>>
    /\ FP_INT(query.y) < 0
    /\ FP_INT(query.x) > 32767
    /\ query.ret \in Cells

\* C13: the value returned is the cell of the position once its pixel
\* coordinates are clamped to [0, MAP_WIDTH-1] x [0, MAP_HEIGHT-1]: column 0
\* (row 0) left of (above) the map, column 19 (row 13) right of (below) it.
C13_ClampedCell ==
    query # <<>> =>
        query.ret = ClampPixel(FP_INT(query.x), MAP_WIDTH) \div Pow2(SPATIAL_CELL_SHIFT)
                    + (ClampPixel(FP_INT(query.y), MAP_HEIGHT) \div Pow2(SPATIAL_CELL_SHIFT))
                          * Pow2(SPATIAL_GRID_W_SHIFT)

\* C13 for positions whose pixel coordinates fit an s16
C13_WithinS16 ==
    (/\ query # <<>>
     /\ FP_INT(query.x) \in -32768 .. 32767
     /\ FP_INT(query.y) \in -32768 .. 32767) => C13_ClampedCell

----------------------------------------------------------------------------
(* What the collision query returns (engine/spatial.c:46-121), under       *)
(* SpecGrid                                                                *)

\* distance of two pixel coordinates
PixelGap(a, b) == IF FP_INT(a) < FP_INT(b) THEN FP_INT(b) - FP_INT(a) ELSE FP_INT(a) - FP_INT(b)

\* the boxes of two entities overlap on both axes
BoxesOverlap(s, t) ==
    /\ PixelGap(s.x, t.x) < s.width \div 2 + t.width \div 2
    /\ PixelGap(s.y, t.y) < s.height \div 2 + t.height \div 2

\* C14: a slot other than 0xFF returned by the query differs from the source
\* slot, is active, carries a bit of targetMask and overlaps the box of the
\* source on both axes; passing Gate 1 or Gate 2 is not enough to be reported.
C14_ReturnedSlotOverlaps ==
    (query # <<>> /\ query.ret # 255) =>
        /\ query.ret \in Slots \ {query.source}
        /\ IsActive(entities[query.ret])
        /\ BitAnd(entities[query.ret].collMask, query.mask) # 0
        /\ BoxesOverlap(entities[query.source], entities[query.ret])

\* a slot is returned while another entity of the walked list passes Gate 1
\* and Gate 2 and fails the box test
C14_Witness ==
    /\ query # <<>>
    /\ query.ret \in Slots
    /\ \E t \in ActiveSlots(entities) \ {query.source, query.ret} :
          /\ spatial_getCellIndex(entities[t].x, entities[t].y)
                = spatial_getCellIndex(entities[query.source].x, entities[query.source].y)
          /\ Gate1(entities[t], query.mask)
          /\ Gate2(entities[query.source], entities[t])
          /\ ~BoxesOverlap(entities[query.source], entities[t])

\* the list of the cell the source of the latest query is in
SourceList ==
    CellList(firstInCell, nextEntity,
             spatial_getCellIndex(entities[query.source].x, entities[query.source].y))

\* parity filter, self/active check and the three gates for slot t
PassesAll(t) ==
    /\ t % 2 = query.frame % 2
    /\ t # query.source
    /\ IsActive(entities[t])
    /\ Gate1(entities[t], query.mask)
    /\ Gate2(entities[query.source], entities[t])
    /\ Gate3(entities[query.source], entities[t])

\* positions of SourceList holding a slot that passes everything
HitPositions == {k \in 1 .. Len(SourceList) : PassesAll(SourceList[k])}

\* position in gridLog of the spatial_insert of a slot
InsertedAt(slot) == CHOOSE i \in 1 .. Len(gridLog) : gridLog[i].op = "insert" /\ gridLog[i].slot = slot

\* C15: the query returns 0xFF exactly when no entity of the list of the
\* source's cell passes the parity filter, the self/active check and the three
\* gates; otherwise it returns the first such entity in list order, which is
\* the one inserted last among them.
C15_FirstHitInListOrder ==
    query # <<>> =>
        /\ query.ret = 255 <=> HitPositions = {}
        /\ \A k \in HitPositions :
              /\ query.ret \in Slots
              /\ \E first \in HitPositions : SourceList[first] = query.ret /\ first <= k
              /\ InsertedAt(SourceList[k]) <= InsertedAt(query.ret)

\* two entities of the list pass everything and one of them is returned
C15_Witness ==
    /\ query # <<>>
    /\ query.ret \in Slots
    /\ Cardinality(HitPositions) >= 2

\* C16: only entities linked in the list of the cell computed from the
\* source's own position are returned; an entity inserted in another cell is
\* never returned, even when its box overlaps the box of the source.
C16_OnlySourceCell ==
    (query # <<>> /\ query.ret # 255) =>
        /\ \E k \in 1 .. Len(SourceList) : SourceList[k] = query.ret
        /\ \A i \in 2 .. Len(gridLog) :
              spatial_getCellIndex(gridLog[i].x, gridLog[i].y)
                    # spatial_getCellIndex(entities[query.source].x, entities[query.source].y)
                 => query.ret # gridLog[i].slot

\* an entity in the cell to the left overlaps the source, carries the mask and
\* has the parity of the frame; the query reports nothing
C16_Witness ==
    /\ query # <<>>
    /\ query.ret = 255
    /\ \E t \in ActiveSlots(entities) \ {query.source} :
          /\ spatial_getCellIndex(entities[t].x, entities[t].y) + 1
                = spatial_getCellIndex(entities[query.source].x, entities[query.source].y)
          /\ t % 2 = query.frame % 2
          /\ Gate1(entities[t], query.mask)
          /\ Gate2(entities[query.source], entities[t])
          /\ BoxesOverlap(entities[query.source], entities[t])

----------------------------------------------------------------------------
(* The grid after the insert pass of a siege frame (game/enemies.c:335-381, *)
(* main.c:886-905), under SpecFrame                                        *)

\* game_update with this joypad and these random() values reaches the
\* subsystem calls of update_siege; w is the world after the pause toggle
RunsSiege(w) == w.g.state = STATE_SIEGE /\ ~w.g.menuOpen /\ ~OpensMenu(w)

\* the world of the coming game_update once the enemy loop of enemies_update
\* has finished
AfterInsertPass(w) == EnemyLoop(director_update(SiegePlayer(w)), SLOT_ENEMIES_START)

\* how often a slot occurs in the cell lists of a world
ListedTimes(w, slot) ==
    Cardinality({p \in UNION {{c} \X (1 .. Len(CellList(w.first, w.next, c))) :
                                 c \in {d \in Cells : w.first[d] # SPATIAL_NULL}} :
                    CellList(w.first, w.next, p[1])[p[2]] = slot})

\* every slot of the set is active, has a collision mask and is on one list
OnOneList(w, slots) ==
    \A s \in slots :
        (IsActive(w.ents[s]) /\ w.ents[s].collMask # COLL_NONE) => ListedTimes(w, s) = 1

\* C17: when the insert pass of a siege frame has finished, every active
\* entity with a non-zero collision mask (player, companion, enemies,
\* projectiles, tower, pickups) is on exactly one cell list of the grid.
C17_AllCollidersInGrid ==
    \A joypad \in Joypads, rnd \in RandomRuns :
        \A start \in {[FrameStart(World(rnd), joypad) EXCEPT !.g = PauseToggle(@)]} :
            RunsSiege(start) => OnOneList(AfterInsertPass(start), Slots)

\* C17 for the visible enemies alone
C17_VisibleEnemies ==
    \A joypad \in Joypads, rnd \in RandomRuns :
        \A start \in {[FrameStart(World(rnd), joypad) EXCEPT !.g = PauseToggle(@)]} :
            RunsSiege(start) =>
                \A w \in {AfterInsertPass(start)} :
                    OnOneList(w, {s \in SLOT_ENEMIES_START .. SLOT_ENEMIES_END :
                                     HasFlag(w.ents[s].flags, ENT_VISIBLE)})

----------------------------------------------------------------------------
(* Misuse specification: spatial_insert and spatial_checkCollisionThreeGate *)
(* (engine/spatial.c:23-29, 46-121) called with any u8 slot, any number of *)
(* times, with or without a spatial_clear before.  The pool holds a player  *)
(* projectile at (BaseX, BaseY) and an enemy beside it.                     *)

\* most spatial_insert calls between two spatial_clear calls
MaxCalls == 3

\* slot arguments: the enemy, the projectile, MAX_ENTITIES and a slot far
\* beyond the pool
MisuseSlots == {SLOT_ENEMIES_START, SLOT_PROJ_START, MAX_ENTITIES, 200}

\* where the byte of an out-of-bounds nextEntity[slot] write lands: past the
\* end of spatialGrid, in memory the model does not hold or in entityCount
Landings == {"elsewhere", "entityCount"}

\* what an out-of-bounds entities[sourceSlot] read can find: zeroes, or bytes
\* that read as a 16 x 16 box at (BaseX, BaseY)
StrayEntities ==
    {ZeroEntity,
     [ZeroEntity EXCEPT !.x = FP(BaseX), !.y = FP(BaseY), !.width = 16, !.height = 16]}

\* the entity array as the query reads it: entities[slot] for a u8 slot
Memory(ents, stray) ==
    [s \in 0 .. 255 |-> IF s < MAX_ENTITIES THEN ents[s] ELSE stray]

MisuseInit ==
    /\ \E dx \in OffsetsX :
          LET pool == Population(ENT_TYPE_PROJ_PLAYER, ENT_TYPE_ENEMY_BASIC, dx, 0, "none")
          IN /\ entities = pool.entities
             /\ entityCount = pool.entityCount
    /\ ret = -2
    /\ LegacyBoot
    /\ log = <<>>
    /\ freed = FALSE
    /\ lastFreed = -1
    /\ GridBoot
    /\ FrameBoot

\* spatial_insert(slot, x, y) without any precondition: the position is the
\* entity's own, (BaseX, BaseY) for a slot beyond the pool.  For
\* slot >= MAX_ENTITIES the nextEntity[slot] store lands outside the array
MisuseInsert(slot, landing) ==
    LET x == IF slot < MAX_ENTITIES THEN entities[slot].x ELSE FP(BaseX)
        y == IF slot < MAX_ENTITIES THEN entities[slot].y ELSE FP(BaseY)
        cellIndex == spatial_getCellIndex(x, y)
    IN /\ Len(gridLog) < MaxCalls
       /\ slot < MAX_ENTITIES => landing = "elsewhere"
       /\ IF slot < MAX_ENTITIES
          THEN /\ firstInCell' = spatial_insert(firstInCell, nextEntity, slot, x, y).firstInCell
               /\ nextEntity' = spatial_insert(firstInCell, nextEntity, slot, x, y).nextEntity
               /\ entityCount' = entityCount
          ELSE /\ firstInCell' = [firstInCell EXCEPT ![cellIndex] = slot]
               /\ nextEntity' = nextEntity
               /\ entityCount' = IF landing = "entityCount"
                                 THEN firstInCell[cellIndex] ELSE entityCount
       /\ gridLog' = Append(gridLog, [op |-> "insert", slot |-> slot, x |-> x, y |-> y])
       /\ query' = [op |-> "insert", slot |-> slot, ret |-> 255,
                    outside |-> slot >= MAX_ENTITIES,
                    first |-> firstInCell, next |-> nextEntity]
       /\ UNCHANGED <<legacyVars, entities, ret, log, freed, lastFreed, frameCount, frameVars>>

\* spatial_checkCollisionThreeGate(sourceSlot, COLL_ENEMY, game.frameCount)
\* without any precondition; for sourceSlot >= MAX_ENTITIES the source is
\* read from outside the entity array
MisuseQuery(sourceSlot, stray) ==
    /\ sourceSlot < MAX_ENTITIES => stray = ZeroEntity
    /\ query' = [op |-> "query", slot |-> sourceSlot,
                 ret |-> spatial_checkCollisionThreeGate(Memory(entities, stray),
                             firstInCell, nextEntity, sourceSlot, COLL_ENEMY, frameCount),
                 outside |-> sourceSlot >= MAX_ENTITIES,
                 first |-> firstInCell, next |-> nextEntity]
    /\ UNCHANGED <<legacyVars, entities, entityCount, ret, log, freed, lastFreed,
                   firstInCell, nextEntity, frameCount, gridLog, frameVars>>

MisuseNext ==
    \/ GridClear
    \/ \E slot \in MisuseSlots, landing \in Landings : MisuseInsert(slot, landing)
    \/ \E sourceSlot \in MisuseSlots, stray \in StrayEntities : MisuseQuery(sourceSlot, stray)

SpecMisuse == MisuseInit /\ [][MisuseNext]_vars

\* C18: spatial_insert with slot >= MAX_ENTITIES leaves the grid unchanged,
\* spatial_checkCollisionThreeGate with sourceSlot >= MAX_ENTITIES returns
\* 0xFF, and neither call accesses memory outside the entities and nextEntity
\* arrays.
C18_OutOfRangeSlotRejected ==
    (query # <<>> /\ query.slot >= MAX_ENTITIES) =>
        /\ ~query.outside
        /\ query.op = "insert" => firstInCell = query.first /\ nextEntity = query.next
        /\ query.op = "query" => query.ret = 255

\* the part of C18 on the insert alone
C18_InsertLeavesGrid ==
    (query # <<>> /\ query.slot >= MAX_ENTITIES /\ query.op = "insert") =>
        firstInCell = query.first /\ nextEntity = query.next

\* the part of C18 on the value the query returns
C18_QueryReturnsNull ==
    (query # <<>> /\ query.slot >= MAX_ENTITIES /\ query.op = "query") => query.ret = 255

\* spatial_clear has run and every insert since was given a slot of the pool
ValidInserts ==
    /\ gridLog # <<>>
    /\ gridLog[1].op = "clear"
    /\ \A i \in 2 .. Len(gridLog) : gridLog[i].slot < MAX_ENTITIES

\* C20: after spatial_insert calls that repeat a slot without a spatial_clear
\* between them, or with no insert at all, a query still returns (its loop
\* ends) and stays inside the grid and entity arrays.
C20_QueryTerminates ==
    (/\ query # <<>>
     /\ query.op = "query"
     /\ query.slot < MAX_ENTITIES
     /\ ValidInserts) => query.ret \in Slots \cup {255}

\* C20 for a query right after spatial_clear, before any insert
C20_EmptyGrid ==
    (/\ query # <<>>
     /\ query.op = "query"
     /\ query.slot < MAX_ENTITIES
     /\ ValidInserts
     /\ Len(gridLog) = 1) => query.ret = 255

----------------------------------------------------------------------------
(* Spawn specification: the seven spawn functions of the game modules are  *)
(* called on pools whose ranges are full or have room for a few entities.  *)

\* most free slots a range starts with
MaxRoom == 1

\* n further enemy_spawn_at calls
RECURSIVE CrowdEnemies(_, _)
CrowdEnemies(w, n) ==
    IF n <= 0 \/ ~Done(w) THEN w
    ELSE CrowdEnemies(enemy_spawn_at(w, FP(200), FP(200)), n - 1)

\* n further projectile_spawn_visual calls
RECURSIVE CrowdProjectiles(_, _)
CrowdProjectiles(w, n) ==
    IF n <= 0 \/ ~Done(w) THEN w
    ELSE CrowdProjectiles(projectile_spawn_visual(w, 300, 200), n - 1)

\* n further pickups_spawn calls
RECURSIVE CrowdPickups(_, _)
CrowdPickups(w, n) ==
    IF n <= 0 \/ ~Done(w) THEN w
    ELSE CrowdPickups(pickups_spawn(w, 240, 260, PICKUP_XP_SMALL), n - 1)

\* the world epoch_init leaves (player, Fenrir, tower, one enemy), spawned
\* into until the enemy, projectile and tower ranges have e, p and k slots left
Crowded(e, p, k) ==
    CrowdPickups(
        CrowdProjectiles(
            CrowdEnemies(epoch_init(BootWorld),
                         SLOT_ENEMIES_END - SLOT_ENEMIES_START - e),
            SLOT_PROJ_END - SLOT_PROJ_START + 1 - p),
        MAX_ENTITIES - SLOT_TOWERS_START - 1 - k)

SpawnInit ==
    /\ \E e \in 0 .. MaxRoom, p \in 0 .. MaxRoom, k \in 0 .. MaxRoom :
          IsWorld([Crowded(e, p, k) EXCEPT !.ev = <<>>])
    /\ ret = -2
    /\ LegacyBoot
    /\ log = <<>>
    /\ freed = FALSE
    /\ lastFreed = -1
    /\ gridLog = <<>>
    /\ query = <<>>

\* one call of a spawn function that led to world w; query keeps the name of
\* the function and the pool and statics as they were before the call
SpawnCall(name, w) ==
    /\ entities' = w.ents
    /\ entityCount' = w.cnt
    /\ firstInCell' = w.first
    /\ nextEntity' = w.next
    /\ frameCount' = w.frame
    /\ game' = w.g
    /\ events' = w.ev
    /\ query' = [op |-> name, ents |-> entities, cnt |-> entityCount, g |-> game]
    /\ UNCHANGED <<legacyVars, ret, log, freed, lastFreed, gridLog>>

SpawnEnemyById(id, rnd) == SpawnCall("enemy_spawn_by_id", enemy_spawn_by_id(World(rnd), id))

SpawnEnemyAt(px, py) == SpawnCall("enemy_spawn_at", enemy_spawn_at(World(<<0>>), FP(px), FP(py)))

SpawnProjectile(dx, dy) ==
    SpawnCall("projectile_spawn", projectile_spawn(World(<<0>>), 160, 112, dx, dy))

SpawnProjectileVisual(px, py) ==
    SpawnCall("projectile_spawn_visual", projectile_spawn_visual(World(<<0>>), px, py))

SpawnPickup(pickupType) ==
    SpawnCall("pickups_spawn", pickups_spawn(World(<<0>>), 150, 118, pickupType))

SpawnDrop(rnd) == SpawnCall("director_spawnDrop", director_spawnDrop(World(rnd)))

SpawnFenrir(px, py) == SpawnCall("fenrir_spawn", fenrir_spawn(World(<<0>>), FP(px), FP(py)))

SpawnNext ==
    \/ \E id \in 0 .. ENEMY_COUNT, rnd \in RandomRuns : SpawnEnemyById(id, rnd)
    \/ \E px \in {150, 700} : SpawnEnemyAt(px, 118)
    \/ \E dx \in {-1, 1} : SpawnProjectile(dx, 0)
    \/ \E px \in {150, 700} : SpawnProjectileVisual(px, 118)
    \/ \E pickupType \in {PICKUP_XP_SMALL, PICKUP_XP_BIG, PICKUP_HEALTH} : SpawnPickup(pickupType)
    \/ \E rnd \in RandomRuns : SpawnDrop(rnd)
    \/ \E px \in {128, 700} : SpawnFenrir(px, 112)

SpecSpawn == SpawnInit /\ [][SpawnNext]_vars

\* the entity_alloc of the latest spawn call returned -1
AllocFailed == \E i \in Calls("alloc") : events[i].slot = -1

\* C19: when entity_alloc finds no free slot in the range of the category it
\* returns -1 with every slot and entityCount unchanged, and each of the seven
\* spawn functions then returns with nothing else changed (liveEnemyCount
\* and the sprite pools included) and without a second entity_alloc.
C19_FailedSpawnChangesNothing ==
    (query # <<>> /\ AllocFailed) =>
        /\ entities = query.ents
        /\ entityCount = query.cnt
        /\ game = query.g
        /\ Cardinality(Calls("alloc")) = 1

\* enemy_spawn_at has failed on a full enemy range while the projectile range
\* still has a free slot
C19_Witness ==
    /\ query # <<>>
    /\ AllocFailed
    /\ query.op = "enemy_spawn_at"
    /\ game.liveEnemyCount = SLOT_ENEMIES_END - SLOT_ENEMIES_START + 1
    /\ \A s \in SLOT_ENEMIES_START .. SLOT_ENEMIES_END : IsActive(entities[s])
    /\ ~IsActive(entities[SLOT_PROJ_END])

\* no call of the named spawn function has failed (refuted for each of the seven)
C19_NoFailure(name) == ~(query # <<>> /\ AllocFailed /\ query.op = name)

----------------------------------------------------------------------------
(* Termination of the query under the caller contract                      *)
(* (engine/spatial.c:13-29, 65-118), under SpecGrid                        *)

\* the walk from slot reaches SPATIAL_NULL within left steps, inside the pool
RECURSIVE EndsInNull(_, _, _)
EndsInNull(next, slot, left) ==
    IF slot = SPATIAL_NULL THEN TRUE
    ELSE IF left = 0 \/ slot >= MAX_ENTITIES THEN FALSE
    ELSE EndsInNull(next, next[slot], left - 1)

\* C21: after one spatial_clear and at most one spatial_insert per slot every
\* cell list is acyclic and ends in SPATIAL_NULL, so the query returns after
\* at most MAX_ENTITIES list nodes.
C21_ListsEndInNull ==
    gridLog # <<>> =>
        /\ \A c \in Occupied :
              /\ EndsInNull(nextEntity, firstInCell[c], MAX_ENTITIES)
              /\ \A j, k \in 1 .. Len(CellList(firstInCell, nextEntity, c)) :
                    CellList(firstInCell, nextEntity, c)[j]
                        = CellList(firstInCell, nextEntity, c)[k] => j = k
        /\ query # <<>> => query.ret \in Slots \cup {255}

\* the query has walked a list of three slots to its end without a hit
C21_Witness ==
    /\ gridLog # <<>>
    /\ query # <<>>
    /\ query.ret = 255
    /\ Len(SourceList) = 3

----------------------------------------------------------------------------
(* What entity_free changes (engine/entity.c:97-104), under SpecPool       *)

\* C22: entity_free(slot) with slot >= MAX_ENTITIES or an inactive slot
\* changes nothing; with an active slot it clears the flags and the type tag
\* of that slot, takes exactly one off entityCount and leaves every field of
\* every other slot alone.
C22_FreeFrame ==
    \A slot \in FreeArgs :
        \A after \in {entity_free(entities, entityCount, slot)} :
            IF slot >= MAX_ENTITIES \/ ~IsActive(entities[slot])
            THEN after.entities = entities /\ after.entityCount = entityCount
            ELSE /\ after.entities[slot].flags = 0
                 /\ after.entities[slot].type = ENT_TYPE_NONE
                 /\ after.entityCount = entityCount - 1
                 /\ \A other \in Slots \ {slot} : after.entities[other] = entities[other]

\* two live entities, one about to be released and the other carrying the
\* fields its owner wrote
C22_Witness ==
    \E slot \in FreeArgs \cap Slots : \E other \in Slots \ {slot} :
        /\ IsActive(entities[slot])
        /\ IsActive(entities[other])
        /\ entities[other].vx = 128
        /\ entity_free(entities, entityCount, slot).entities[slot].flags = 0

----------------------------------------------------------------------------
(* The slot ranges of entity_alloc (engine/entity.c:28-51,                 *)
(* engine/config.h:47-67), under SpecPool                                  *)

\* every value of the u8 type argument
TypeBytes == 0 .. 255

\* the slots entity_alloc scans for a type
ScanRange(type) == AllocStart(type) .. (AllocEnd(type) - 1)

\* the ranges of all type bytes
ScanRanges == {ScanRange(type) : type \in TypeBytes}

\* C23: the ranges entity_alloc scans are [0,2) for 0x1X, [2,26) for 0x2X,
\* [26,58) for 0x3X and [58,64) for every other type; they are contiguous,
\* pairwise disjoint and cover [0, MAX_ENTITIES) exactly, and a successful
\* entity_alloc returns a slot of the range of the type it was given.
C23_RangesPartitionPool ==
    /\ \A type \in TypeBytes : ScanRange(type) = ClaimRange(type)
    /\ \A a, b \in ScanRanges : a = b \/ a \cap b = {}
    /\ UNION ScanRanges = Slots
    /\ \A a \in ScanRanges :
          /\ a = LowestOf(a) .. (LowestOf(a) + Cardinality(a) - 1)
          /\ LowestOf(a) = 0 \/ \E b \in ScanRanges : LowestOf(a) - 1 \in b
    /\ \A type \in TypeBytes :
          \A r \in {entity_alloc(entities, entityCount, type)} :
              r.ret # -1 => r.ret \in ClaimRange(type) /\ IsActive(r.entities[r.ret])

\* the latest entity_alloc was given a type outside the three tagged
\* categories (an NPC) and returned a slot of the last range while the first
\* slot of the enemy range is taken as well
C23_Witness ==
    /\ ret \in SLOT_TOWERS_START .. (MAX_ENTITIES - 1)
    /\ entities[ret].type = ENT_TYPE_NPC
    /\ IsActive(entities[SLOT_ENEMIES_START])

----------------------------------------------------------------------------
(* Hitbox sizes of live entities (engine/entity.c:59-87, main.c:402-418),  *)
(* under SpecFrame                                                         *)

\* the width (= height) the claim gives per category: 16 player and
\* companion, 24 enemy, 12 projectile, 64 tower, 16 pickup and anything else
ClaimedSize(type) ==
    IF type \div 16 = 2 THEN 24
    ELSE IF type \div 16 = 3 THEN 12
    ELSE IF type \div 16 = 4 THEN 64
    ELSE 16

\* C24: every active entity has the width and height entity_alloc assigns to
\* its category; no spawn function and no per-frame update changes them.
C24_SizesStayDefault ==
    \A s \in Slots :
        IsActive(entities[s]) =>
            /\ entities[s].width = ClaimedSize(entities[s].type)
            /\ entities[s].height = ClaimedSize(entities[s].type)

\* C24 for every entity but towers
C24_ExceptTowers ==
    \A s \in Slots :
        (IsActive(entities[s]) /\ entities[s].type \div 16 # 4) =>
            /\ entities[s].width = ClaimedSize(entities[s].type)
            /\ entities[s].height = ClaimedSize(entities[s].type)

----------------------------------------------------------------------------
(* Pool resets (engine/entity.c:17-24, 106, main.c:691-778), under         *)
(* SpecFrame                                                               *)

\* C25: entity_initPool and entity_freeAll leave every slot inactive and
\* entityCount 0; after game_init the active entities are the player, the
\* companion and the tower it spawns itself, and no enemy, projectile or
\* pickup that was alive before the call is still active.
C25_ResetLeavesNoSurvivor ==
    /\ ActiveSlots(entity_initPool.entities) = {}
    /\ entity_initPool.entityCount = 0
    /\ ActiveSlots(entity_freeAll.entities) = {}
    /\ entity_freeAll.entityCount = 0
    /\ \A w \in {game_init(World(<<0>>))} :
          /\ ActiveSlots(w.ents) = {SLOT_PLAYER, SLOT_FENRIR, SLOT_TOWERS_START}
          /\ w.ents[SLOT_PLAYER].type = ENT_TYPE_PLAYER
          /\ w.ents[SLOT_FENRIR].type = ENT_TYPE_FENRIR
          /\ w.ents[SLOT_TOWERS_START].type = ENT_TYPE_TOWER_CENTER
          /\ w.cnt = 3

\* an enemy, a projectile and a pickup are alive, and game_init on this state
\* leaves their slots inactive
C25_Witness ==
    /\ \E s \in SLOT_ENEMIES_START .. SLOT_ENEMIES_END : IsActive(entities[s])
    /\ \E s \in SLOT_PROJ_START .. SLOT_PROJ_END : IsActive(entities[s])
    /\ \E s \in (SLOT_TOWERS_START + 1) .. (MAX_ENTITIES - 1) : IsActive(entities[s])
    /\ entityCount > 3
    /\ game_init(World(<<0>>)).cnt = 3

----------------------------------------------------------------------------
(* Wave specification: the director late in a wave (game/director.c).      *)
(* WaveUpdate is the director_update call of a siege frame, WaveKill the   *)
(* death of an enemy through enemy_damage. A run starts when epoch_init    *)
(* has returned, or in wave n with MAX_ACTIVE_ENEMIES enemies on the map   *)
(* and at most MaxLeft enemies of the wave left to kill; up to MaxKills    *)
(* kills are followed, each while at most MaxLeft enemies of the wave are  *)
(* left. log holds the slots of the killed enemies.                        *)

\* the waves a run starts in
MaxWave == 5

\* the enemies of a wave left to kill at the start of a run
MaxLeft == 1

\* the kills of a run
MaxKills == 2

\* wave waveNum has started, batches have filled the map up to
\* MAX_ACTIVE_ENEMIES enemies and all but left enemies of the wave are killed
LateInWave(waveNum, left) ==
    LET started == director_startWave(epoch_init(BootWorld), waveNum)
        crowded == SpawnBatch(started, ENEMY_ID_GRUNT,
                              MAX_ACTIVE_ENEMIES - started.g.liveEnemyCount)
    IN [crowded EXCEPT !.g.enemiesRemaining = left]

WaveWorlds ==
    {epoch_init(BootWorld)}
    \cup {LateInWave(waveNum, left) : waveNum \in 1 .. MaxWave, left \in 1 .. MaxLeft}

WaveInit ==
    /\ \E w \in WaveWorlds : IsWorld([w EXCEPT !.ev = <<>>])
    /\ ret = -2
    /\ LegacyBoot
    /\ log = <<>>
    /\ freed = FALSE
    /\ lastFreed = -1
    /\ gridLog = <<>>
    /\ query = <<>>

\* one call that led to world w; query keeps the name of the function and
\* the wave counters as they were before the call
WaveCall(name, w) ==
    /\ entities' = w.ents
    /\ entityCount' = w.cnt
    /\ firstInCell' = w.first
    /\ nextEntity' = w.next
    /\ frameCount' = w.frame
    /\ game' = w.g
    /\ events' = <<>>
    /\ query' = [op |-> name, waveNumber |-> game.waveNumber,
                 enemiesRemaining |-> game.enemiesRemaining,
                 liveEnemyCount |-> game.liveEnemyCount]
    /\ UNCHANGED <<legacyVars, ret, freed, lastFreed, gridLog>>

\* the active entities of the enemy slot range
LiveEnemies(ents) ==
    {s \in SLOT_ENEMIES_START .. SLOT_ENEMIES_END : IsActive(ents[s])}

\* director_update of one siege frame
WaveUpdate(rnd) ==
    /\ \E w \in {director_update(World(rnd))} : WaveCall("director_update", w)
    /\ UNCHANGED log

\* a hit that kills the enemy in the lowest active enemy slot
WaveKill(rnd) ==
    /\ game.enemiesRemaining <= MaxLeft
    /\ Len(log) < MaxKills
    /\ LiveEnemies(entities) # {}
    /\ \E slot \in {LowestOf(LiveEnemies(entities))} :
          /\ \E w \in {enemy_damage(World(rnd), slot, 255)} : WaveCall("enemy_damage", w)
          /\ log' = Append(log, slot)

\* the random() values of the director_update calls
WaveRandoms == {<<1, 300, 0, 32768, 32768>>}

WaveTick == \E rnd \in WaveRandoms : WaveUpdate(rnd)

WaveNext ==
    \/ WaveTick
    \/ \E rnd \in RandomRuns : WaveKill(rnd)

\* every siege frame calls director_update, so the call cannot be put off
\* for ever; kills are up to the player
SpecWave == WaveInit /\ [][WaveNext]_vars /\ WF_vars(WaveTick)

\* C26: for every wave n >= 1, once all enemies of wave n have been killed
\* (enemiesRemaining is 0 in wave n), a later director_update starts wave n+1
C26_NextWaveStarts ==
    \A n \in 1 .. MaxWave :
        (game.waveNumber = n /\ game.enemiesRemaining = 0) ~> (game.waveNumber = n + 1)

\* the same for the waves that have no boss
C26_WavesWithoutBoss ==
    \A n \in {m \in 1 .. MaxWave + 1 : m % BOSS_WAVE_INTERVAL # 0} :
        (game.waveNumber = n /\ game.enemiesRemaining = 0) ~> (game.waveNumber = n + 1)

\* wave 5 with all its enemies and the boss killed, and bossActive still set
C26_BossFlagStays ==
    (game.waveNumber = BOSS_WAVE_INTERVAL /\ game.enemiesRemaining = 0
        /\ LiveEnemies(entities) = {}) => game.bossActive = 1

----------------------------------------------------------------------------
(* The cached enemy count (game/director.h:20-21, director.c:137-157,      *)
(* enemies.c:218-277, 284-320)                                             *)

\* the enemy slots freed while active in the latest game_update
EnemyFrees ==
    {i \in Calls("free") :
        /\ events[i].hit = 1
        /\ events[i].slot \in SLOT_ENEMIES_START .. SLOT_ENEMIES_END}

\* the successful allocations of enemy slots in the latest game_update
EnemyAllocs ==
    {i \in Calls("alloc") : events[i].slot \in SLOT_ENEMIES_START .. SLOT_ENEMIES_END}

\* C27: director.liveEnemyCount equals the number of active entities in the
\* enemy slot range, after epoch_init, after every game_update (edge respawns
\* and kills included) and after a game_init call made at that point
C27_LiveCountMatches ==
    /\ game.liveEnemyCount = Cardinality(LiveEnemies(entities))
    /\ \A w \in {game_init(World(<<0>>))} :
          w.g.liveEnemyCount = Cardinality(LiveEnemies(w.ents))

\* a frame that killed an enemy and spawned another, with enemies alive after it
C27_Witness ==
    /\ EnemyFrees # {}
    /\ EnemyAllocs # {}
    /\ game.liveEnemyCount > 0
    /\ game.liveEnemyCount = Cardinality(LiveEnemies(entities))

----------------------------------------------------------------------------
(* Slots returned to projectiles_update (game/enemies.c:380-381, 466-469,  *)
(* engine/spatial.c:65-74, main.c:880-905), under SpecSiege                *)

\* a skirmish with two shots in flight: the player, at (160, 112), has fired
\* twice to the right at the second enemy, which has hp left
Volley(hp) ==
    projectile_spawn(projectile_spawn(Skirmish(150, 118, 172, 112, hp), 160, 112, 1, 0),
                     160, 112, 1, 0)

\* the boss of a wave (a Tank: maxHP 100) has walked up to (px, py)
Duel(px, py) ==
    LET w == enemy_spawn_by_id(epoch_init(BootWorld), ENEMY_ID_TANK)
    IN [w EXCEPT !.ents[SLOT_ENEMIES_START + 1].x = FP(px),
                 !.ents[SLOT_ENEMIES_START + 1].y = FP(py)]

\* the worlds a siege run starts from
SiegeWorlds == {Volley(10), Duel(192, 112)}

SiegeInit ==
    /\ \E w \in SiegeWorlds : IsWorld([w EXCEPT !.ev = <<>>])
    /\ ret = -2
    /\ LegacyBoot
    /\ log = <<>>
    /\ freed = FALSE
    /\ lastFreed = -1
    /\ gridLog = <<>>
    /\ query = <<>>

\* the frame loop from a volley or a duel on
SpecSiege == SiegeInit /\ [][FrameNext]_vars

\* the collision queries of the latest game_update that returned a slot
QueryHits == {q \in Calls("query") : events[q].hit # 255}

\* the spatial_insert calls for slot before position q of the latest game_update
InsertsBefore(slot, q) == {i \in Calls("insert") : i < q /\ events[i].slot = slot}

\* the calls between positions i and q that freed slot while it was active or
\* allocated it
Turnovers(slot, i, q) ==
    {k \in (i + 1) .. (q - 1) :
        /\ events[k].slot = slot
        /\ \/ events[k].op = "alloc"
           \/ events[k].op = "free" /\ events[k].hit = 1}

\* the successful allocations of enemy slots after the last spatial_insert of
\* the latest game_update
LateSpawns ==
    {a \in EnemyAllocs : \A i \in Calls("insert") : i < a}

\* C28: every slot a collision query of projectiles_update returns is an
\* active enemy slot that enemies_update inserted earlier in the same frame
\* and that was neither freed nor allocated between that insert and the
\* query; a slot allocated after the insert pass is never returned
C28_ReturnedSlotInsertedThisFrame ==
    \A q \in QueryHits :
        /\ events[q].hit \in SLOT_ENEMIES_START .. SLOT_ENEMIES_END
        /\ InsertsBefore(events[q].hit, q) # {}
        /\ \A i \in InsertsBefore(events[q].hit, q) : Turnovers(events[q].hit, i, q) = {}
        /\ \A a \in LateSpawns : a < q => events[a].slot # events[q].hit

\* a frame in which an enemy was spawned after the insert pass, a collision
\* query then returned a slot whose enemy died of the hit, and a later query
\* of the same frame walked the list that still links the freed slot
C28_Witness ==
    \E q \in QueryHits : \E a \in LateSpawns : \E f \in EnemyFrees :
        \E r \in Calls("query") :
            /\ a < q
            /\ q < f
            /\ f < r
            /\ events[f].slot = events[q].hit
            /\ events[f].slot \in
                  {CellList(firstInCell, nextEntity, InsertCell(events[f].slot))[k] :
                      k \in 1 .. Len(CellList(firstInCell, nextEntity,
                                              InsertCell(events[f].slot)))}

----------------------------------------------------------------------------
(* Visual projectiles (game/projectiles.c:114-126, 174-216, main.c:147-148) *)
(* under SpecSiege                                                         *)

\* the projectile slots that hold a projectile_spawn_visual projectile with
\* more than one frame of its lifetime left: active, without ENT_FRIENDLY
VisualShots(ents) ==
    {i \in SLOT_PROJ_START .. SLOT_PROJ_END :
        /\ IsActive(ents[i])
        /\ HighNibble(ents[i].type) = ENT_TYPE_PROJ_PLAYER
        /\ BitAnd(ents[i].flags, ENT_FRIENDLY) = 0
        /\ ents[i].timer > 1}

\* C29: a visual projectile never damages an enemy and is removed only when
\* its lifetime expires or it leaves the map: in a frame that starts with a
\* visual projectile that has lifetime left, no collision query made for it
\* returns a slot, and if the frame ran the siege update the projectile is
\* still there after it
C29_VisualNeverHits ==
    [][\A i \in VisualShots(entities) :
          /\ \A q \in {k \in 1 .. Len(events') : events'[k].op = "query"} :
                events'[q].slot = i => events'[q].hit = 255
          /\ (\E k \in 1 .. Len(events') : events'[k].op = "insert")
                => IsActive(entities'[i])]_vars

----------------------------------------------------------------------------
(* The companion's target cache (game/fenrir.c:81-90, 152-181,             *)
(* engine/entity.c:50-57), under SpecFrame                                 *)

\* the enemy slots allocated in the game_update that led to the events
Respawned(ev) ==
    {ev[k].slot : k \in {j \in 1 .. Len(ev) :
                            /\ ev[j].op = "alloc"
                            /\ ev[j].slot \in SLOT_ENEMIES_START .. SLOT_ENEMIES_END}}

\* C30: the slot fenrir_update works on in attack mode still holds the enemy
\* the companion acquired: when the cached slot is allocated to a new enemy
\* during a frame (its former enemy has died), the fenrir_update of that
\* frame does not keep the slot as its target
C30_CacheClearedOnReuse ==
    [][(/\ game.currentMode = FENRIR_MODE_ATTACK
        /\ IsActive(entities[SLOT_FENRIR])
        /\ IsActive(entities[SLOT_PLAYER])
        /\ game.cachedTargetSlot \in Respawned(events'))
       => game'.cachedTargetSlot # game.cachedTargetSlot]_vars

----------------------------------------------------------------------------
(* Start specification: director_startWave called for the wave numbers     *)
(* 1 .. MaxStartWave on the world epoch_init leaves and on the worlds the  *)
(* earlier calls left (game/director.c:44-71).                             *)

\* the highest wave number passed to director_startWave
MaxStartWave == 12

StartInit ==
    /\ \E w \in {epoch_init(BootWorld)} : IsWorld([w EXCEPT !.ev = <<>>])
    /\ ret = -2
    /\ LegacyBoot
    /\ log = <<>>
    /\ freed = FALSE
    /\ lastFreed = -1
    /\ gridLog = <<>>
    /\ query = <<>>

\* director_startWave(waveNum)
StartWave(waveNum) ==
    /\ \E w \in {director_startWave(World(<<0>>), waveNum)} :
          WaveCall("director_startWave", w)
    /\ UNCHANGED log

StartNext == \E waveNum \in 1 .. MaxStartWave : StartWave(waveNum)

SpecStart == StartInit /\ [][StartNext]_vars

\* C31: after director_startWave(w) for a wave number w >= 1,
\* director.spawnInterval lies between MIN_SPAWN_INTERVAL and
\* BASE_SPAWN_INTERVAL
C31_IntervalInRange ==
    (query # <<>> /\ query.op = "director_startWave")
        => game.spawnInterval \in MIN_SPAWN_INTERVAL .. BASE_SPAWN_INTERVAL

\* the same for the wave numbers up to 9
C31_UpToWaveNine ==
    (query # <<>> /\ query.op = "director_startWave" /\ game.waveNumber <= 9)
        => game.spawnInterval \in MIN_SPAWN_INTERVAL .. BASE_SPAWN_INTERVAL

----------------------------------------------------------------------------
(* The cap on live enemies (game/director.c:24, 63-68, 96-128,             *)
(* enemies.c:466-469), under SpecWave                                      *)

\* C32: director.liveEnemyCount, and with it the number of active enemies,
\* never exceeds MAX_ACTIVE_ENEMIES, batch spawns, the boss spawn of
\* director_startWave and the spawn of epoch_init included
C32_LiveWithinCap ==
    /\ game.liveEnemyCount <= MAX_ACTIVE_ENEMIES
    /\ Cardinality(LiveEnemies(entities)) <= MAX_ACTIVE_ENEMIES

\* the director_update that started the boss wave on a map that held
\* MAX_ACTIVE_ENEMIES - 1 enemies: the boss is the MAX_ACTIVE_ENEMIES-th
C32_Witness ==
    /\ query # <<>>
    /\ query.op = "director_update"
    /\ query.waveNumber = BOSS_WAVE_INTERVAL - 1
    /\ query.liveEnemyCount = MAX_ACTIVE_ENEMIES - 1
    /\ game.waveNumber = BOSS_WAVE_INTERVAL
    /\ game.bossActive = 1
    /\ game.liveEnemyCount = MAX_ACTIVE_ENEMIES

----------------------------------------------------------------------------
(* START with the upgrade menu open (ui/upgrade_menu.c:140-141, 209-213,   *)
(* main.c:781-787, 996-1007), under SpecCamp                               *)

\* a later moment of the siege: the player has walked to (px, py), next to the
\* tower
Camp(px, py) ==
    LET w == epoch_init(BootWorld)
    IN [w EXCEPT !.ents[SLOT_PLAYER].x = FP(px), !.ents[SLOT_PLAYER].y = FP(py)]

CampInit ==
    /\ \E w \in {Camp(TOWER_X - 20, TOWER_Y)} : IsWorld([w EXCEPT !.ev = <<>>])
    /\ ret = -2
    /\ LegacyBoot
    /\ log = <<>>
    /\ freed = FALSE
    /\ lastFreed = -1
    /\ gridLog = <<>>
    /\ query = <<>>

\* the frame loop with the player next to the tower
SpecCamp == CampInit /\ [][FrameNext]_vars

\* C33: a game_update in which START is newly pressed while the upgrade menu
\* is open in STATE_SIEGE ends with the menu closed and the game still in
\* STATE_SIEGE
C33_StartClosesMenu ==
    [][(/\ game.state = STATE_SIEGE
        /\ game.menuOpen
        /\ frameCount' = frameCount + 1
        /\ "START" \in game'.pressed)
       => (~game'.menuOpen /\ game'.state = STATE_SIEGE)]_vars

\* what the game_update does instead: build mode, with the menu left open
C33_PausedWithMenuOpen ==
    [][(/\ game.state = STATE_SIEGE
        /\ game.menuOpen
        /\ frameCount' = frameCount + 1
        /\ "START" \in game'.pressed)
       => (game'.menuOpen /\ game'.state = STATE_PAUSED
           /\ game'.prevState = STATE_SIEGE)]_vars

----------------------------------------------------------------------------
(* Invulnerability after contact damage (inc/constants.h:109-110,          *)
(* main.c:263-278, 310-313, 912-960), under SpecContact                    *)

MaxContactFrames == 16

\* a Tank stands px pixels to the right of the player, inside the contact
\* radius
Clinch(px) == Duel(160 + px, 112)

ContactInit ==
    /\ \E w \in {Clinch(8)} : IsWorld([w EXCEPT !.ev = <<>>])
    /\ ret = -2
    /\ LegacyBoot
    /\ log = <<>>
    /\ freed = FALSE
    /\ lastFreed = -1
    /\ gridLog = <<>>
    /\ query = <<>>

\* TRUE when the contact walk of the frame found an enemy on the player
Damaged(ev) == \E k \in DOMAIN ev : ev[k].op = "walk" /\ ev[k].hit = 1

\* one game_update with no button or with the dash button; log keeps the
\* numbers of the frames in which contact damage was applied
ContactFrame(joypad) ==
    /\ frameCount < MaxContactFrames
    /\ \E w \in {game_update(World(<<1, 300, 0, 32768, 32768>>), joypad)} :
          /\ entities' = w.ents
          /\ entityCount' = w.cnt
          /\ firstInCell' = w.first
          /\ nextEntity' = w.next
          /\ frameCount' = w.frame
          /\ game' = w.g
          /\ events' = w.ev
          /\ log' = IF Damaged(w.ev) THEN Append(log, w.frame) ELSE log
    /\ UNCHANGED <<legacyVars, ret, freed, lastFreed, gridLog, query>>

ContactNext == \E joypad \in {{}, {"C"}} : ContactFrame(joypad)

\* the siege with an enemy on the player
SpecContact == ContactInit /\ [][ContactNext]_vars

\* C34: after contact damage no further contact damage is applied during the
\* next INVULN_FRAMES siege-update frames
C34_NoDamageWhileInvulnerable ==
    \A i, j \in DOMAIN log : i < j => log[j] - log[i] > INVULN_FRAMES

\* what the code keeps: DASH_DURATION frames without contact damage
C34_DashLongGap ==
    \A i, j \in DOMAIN log : i < j => log[j] - log[i] > DASH_DURATION

----------------------------------------------------------------------------
(* entityCount against the ENT_ACTIVE flags (engine/entity.c:8-9, 17-24,   *)
(* 51-91, 97-104), under SpecPool                                          *)

\* C35: after any sequence of entity_initPool, entity_alloc and entity_free
\* calls entityCount is the number of slots whose ENT_ACTIVE flag is set
C35_CountIsActiveSlots ==
    entityCount = Cardinality({s \in Slots : IsActive(entities[s])})

\* two allocations and one release later: one slot counted, one slot handed
\* out before and inactive now
C35_Witness ==
    /\ ret = -2
    /\ entityCount = 1
    /\ Cardinality({s \in Slots : IsActive(entities[s])}) = 1
    /\ Cardinality(Holes(entities)) = 1

----------------------------------------------------------------------------
(* The enemy sprite pool (game/enemies.c:75-91, 308-316, 386-397,          *)
(* 450-461), under SpecCamp                                                *)

\* the active enemies that hold sprite index s in their data field
Holders(ents, s) ==
    {slot \in SLOT_ENEMIES_START .. SLOT_ENEMIES_END :
        IsActive(ents[slot]) /\ ToU8(ents[slot].data) = s}

\* every sprite index is marked not-free exactly when one active enemy holds
\* it, and none is held twice
PoolMatches(w) ==
    \A s \in EnemySprites :
        /\ Cardinality(Holders(w.ents, s)) <= 1
        /\ w.g.spriteSlotFree[s] <=> Holders(w.ents, s) = {}

----------------------------------------------------------------------------
(* The first_free hint of the deprecated entity manager                    *)
(* (_deprecated/src/engines/common/common.h:89, entity_manager.c:38-91)    *)

\* largest capacity handed to entity_manager_init
MaxCapacity == 5

ManagerInit ==
    /\ \E capacity \in 1 .. MaxCapacity : em = entity_manager_init(capacity)
    /\ split = ZeroSplit
    /\ entities = entity_initPool.entities
    /\ entityCount = entity_initPool.entityCount
    /\ ret = -2
    /\ log = <<>>
    /\ freed = FALSE
    /\ lastFreed = -1
    /\ GridBoot
    /\ FrameBoot

ManagerSpawn(type) ==
    /\ \E r \in {em_entity_spawn(em, type)} :
          /\ em' = r.em
          /\ ret' = r.ret
    /\ UNCHANGED <<entities, entityCount, log, freed, lastFreed, gridVars, frameVars,
                   split>>

ManagerDespawn(ent) ==
    /\ em' = em_entity_despawn(em, ent)
    /\ ret' = -2
    /\ UNCHANGED <<entities, entityCount, log, freed, lastFreed, gridVars, frameVars,
                   split>>

ManagerClear ==
    /\ em' = entity_manager_clear(em)
    /\ ret' = -2
    /\ UNCHANGED <<entities, entityCount, log, freed, lastFreed, gridVars, frameVars,
                   split>>

ManagerNext ==
    \/ \E type \in {ENT_CAT_ENEMY, ENT_CAT_PROJECTILE} : ManagerSpawn(type)
    \/ \E ent \in {NULL} \cup (0 .. (em.capacity - 1)) : ManagerDespawn(ent)
    \/ ManagerClear

SpecManager == ManagerInit /\ [][ManagerNext]_vars

\* the inactive slots of the manager
InactiveSlots(m) ==
    {i \in 0 .. (m.capacity - 1) : ~HasFlag(m.entities[i].flags, ENT_FLAG_ACTIVE)}

\* C37: em->first_free is the index of the lowest-index inactive slot, or
\* em->capacity when every slot is active
C37_FirstFreeIsLowestInactive ==
    em.first_free = IF InactiveSlots(em) = {} THEN em.capacity
                    ELSE CHOOSE i \in InactiveSlots(em) : \A j \in InactiveSlots(em) : i <= j

\* what the code keeps: every slot below first_free is active, first_free is
\* at most capacity and count is the number of active slots
C37_NoInactiveBelowHint ==
    /\ em.first_free <= em.capacity
    /\ \A i \in InactiveSlots(em) : em.first_free <= i
    /\ em.count = em.capacity - Cardinality(InactiveSlots(em))

\* so entity_spawn returns NULL only when every slot is active
C37_SpawnFindsFreeSlot ==
    InactiveSlots(em) # {} => em_entity_spawn(em, ENT_CAT_ENEMY).ret # NULL

----------------------------------------------------------------------------
(* Category limits of the deprecated split pool (_deprecated/src/entity.c  *)
(* :53-59, 162-177, 215-234, 275-291)                                      *)

\* entity_spawn and entity_free calls of one run
MaxSplitCalls == 3

\* n more entities of type
RECURSIVE SpawnMany(_, _, _)
SpawnMany(s, type, n) ==
    IF n = 0 THEN s
    ELSE CHOOSE after \in {SpawnMany(spawned, type, n - 1) :
                              spawned \in {split_entity_spawn(s, type).split}} : TRUE

\* a later moment of a game built for tier: p projectiles, k pickups, f effects
\* and t triggers are alive, no enemy
Crowd(tier, p, k, f, t) ==
    SpawnMany(SpawnMany(SpawnMany(SpawnMany(entity_init_all(tier),
        ENT_CAT_PROJECTILE, p), ENT_CAT_PICKUP, k), ENT_CAT_EFFECT, f),
        ENT_CAT_TRIGGER, t)

\* the pools a run starts from: empty, and one or two slots short of full
SplitWorlds ==
    {entity_init_all("minimal"), entity_init_all("standard"),
     Crowd("standard", 48, 14, 0, 0), Crowd("standard", 48, 15, 0, 0),
     Crowd("minimal", 16, 16, 8, 22), Crowd("minimal", 16, 15, 8, 22)}

SplitInit ==
    /\ split \in SplitWorlds
    /\ em = ZeroManager
    /\ entities = entity_initPool.entities
    /\ entityCount = entity_initPool.entityCount
    /\ ret = -2
    /\ log = <<>>
    /\ freed = FALSE
    /\ lastFreed = -1
    /\ GridBoot
    /\ FrameBoot

\* log keeps the calls of the run, each with the count of its category before
\* the call
CategoryCount(s, category) ==
    CASE category = ENT_CAT_ENEMY -> s.enemy_count
      [] category = ENT_CAT_PROJECTILE -> s.projectile_count
      [] category = ENT_CAT_PICKUP -> s.pickup_count
      [] category = ENT_CAT_EFFECT -> s.effect_count
      [] OTHER -> 0

SplitSpawn(type) ==
    /\ Len(log) < MaxSplitCalls
    /\ \E r \in {split_entity_spawn(split, type)} :
          /\ split' = r.split
          /\ ret' = r.ret
    /\ log' = Append(log, [op |-> "entity_spawn", arg |-> type,
                           count |-> CategoryCount(split, type),
                           room |-> category_can_spawn(split, type)])
    /\ UNCHANGED <<entities, entityCount, freed, lastFreed, gridVars, frameVars, em>>

SplitFree(id) ==
    /\ Len(log) < MaxSplitCalls
    /\ split' = split_entity_free(split, id)
    /\ ret' = -2
    /\ log' = Append(log, [op |-> "entity_free", arg |-> id, count |-> 0, room |-> TRUE])
    /\ UNCHANGED <<entities, entityCount, freed, lastFreed, gridVars, frameVars, em>>

SplitNext ==
    \/ \E type \in {ENT_CAT_ENEMY, ENT_CAT_PROJECTILE, ENT_CAT_PICKUP, ENT_CAT_EFFECT,
                    ENT_CAT_TRIGGER} : SplitSpawn(type)
    \/ \E id \in {ENTITY_ID_PLAYER, 1, LEGACY_MAX_ENTITIES - 1, LEGACY_MAX_ENTITIES} :
          SplitFree(id)

SpecSplit == SplitInit /\ [][SplitNext]_vars

\* the categories with a HAL_MAX_* limit
LimitedCategories == {ENT_CAT_ENEMY, ENT_CAT_PROJECTILE, ENT_CAT_PICKUP, ENT_CAT_EFFECT}

\* C38: entity_spawn of a type whose category count is below its HAL_MAX_*
\* limit returns a slot, whatever is alive in the other categories
C38_NoCategoryStarves ==
    (/\ log # <<>>
     /\ log[Len(log)].op = "entity_spawn"
     /\ log[Len(log)].arg \in LimitedCategories
     /\ log[Len(log)].room)
    => ret # ENTITY_ID_NONE

\* what the code keeps: an entity_spawn fails only at the category limit or
\* with every slot of the shared array taken
C38_FailsOnlyWhenFull ==
    (/\ log # <<>>
     /\ log[Len(log)].op = "entity_spawn"
     /\ log[Len(log)].room
     /\ ret = ENTITY_ID_NONE)
    => (split.free_list_head = ENTITY_ID_NONE
        /\ split.active_count = LEGACY_MAX_ENTITIES - 1)

====
